---- MODULE Spec2Model ----
(***************************************************************************)
(* Overwatch worker: the ETL pipeline (scrape -> transform -> insert) of   *)
(* apps/worker, run by two worker processes against one MongoDB            *)
(* collection `missing_persons`.                                           *)
(*                                                                         *)
(* Texts are sequences of one-character strings, so that trimming,         *)
(* lower-casing, substring tests and parseInt are computed, not assumed.   *)
(* Instants (Date values) are minutes since 1970-01-01T00:00Z.             *)
(***************************************************************************)
EXTENDS Integers, Sequences, FiniteSets, TLC

(***************************************************************************)
(* Text primitives (JavaScript String methods used by the worker)          *)
(***************************************************************************)
Digits == <<"0", "1", "2", "3", "4", "5", "6", "7", "8", "9">>

UpperAlphabet ==
  <<"A", "B", "C", "D", "E", "F", "G", "H", "I", "J", "K", "L", "M",
    "N", "O", "P", "Q", "R", "S", "T", "U", "V", "W", "X", "Y", "Z">>

LowerAlphabet ==
  <<"a", "b", "c", "d", "e", "f", "g", "h", "i", "j", "k", "l", "m",
    "n", "o", "p", "q", "r", "s", "t", "u", "v", "w", "x", "y", "z">>

WhiteSpace == {" ", "\t", "\n"}

Range(f) == {f[i] : i \in DOMAIN f}

IsDigit(c) == c \in Range(Digits)

DigitVal(c) == (CHOOSE i \in DOMAIN Digits : Digits[i] = c) - 1

IsLetter(c) == c \in Range(UpperAlphabet) \cup Range(LowerAlphabet)

\* String.prototype.toLowerCase, one character
LowerChar(c) ==
  IF c \in Range(UpperAlphabet)
  THEN LowerAlphabet[CHOOSE i \in DOMAIN UpperAlphabet : UpperAlphabet[i] = c]
  ELSE c

\* String.prototype.toLowerCase
toLowerCase(s) == [i \in DOMAIN s |-> LowerChar(s[i])]

\* String.prototype.includes
includes(s, sub) ==
  \E i \in 1..(Len(s) - Len(sub) + 1) : SubSeq(s, i, i + Len(sub) - 1) = sub

\* String.prototype.substring(0, n)
substring0(s, n) == SubSeq(s, 1, IF Len(s) < n THEN Len(s) ELSE n)

\* String.prototype.trim
RECURSIVE TrimLeft(_)
TrimLeft(s) ==
  IF s # <<>> /\ Head(s) \in WhiteSpace THEN TrimLeft(Tail(s)) ELSE s

RECURSIVE TrimRight(_)
TrimRight(s) ==
  IF s # <<>> /\ s[Len(s)] \in WhiteSpace
  THEN TrimRight(SubSeq(s, 1, Len(s) - 1))
  ELSE s

trim(s) == TrimRight(TrimLeft(s))

\* String.prototype.replace(/\s+/g, ' ')
RECURSIVE CollapseSpaces(_)
CollapseSpaces(s) ==
  IF s = <<>> THEN <<>>
  ELSE IF Head(s) \in WhiteSpace
       THEN <<" ">> \o CollapseSpaces(TrimLeft(s))
       ELSE <<Head(s)>> \o CollapseSpaces(Tail(s))

\* validators.ts normalizeText
normalizeText(text) == CollapseSpaces(trim(text))

\* The value NaN of the Number type (the result of parseInt on a text
\* without a leading integer); every comparison with it is false.
NaN == -999999

isNaN(x) == x = NaN

NumLt(a, b) == ~isNaN(a) /\ ~isNaN(b) /\ a < b

NumGt(a, b) == ~isNaN(a) /\ ~isNaN(b) /\ a > b

RECURSIVE DigitsValue(_, _)
DigitsValue(s, acc) ==
  IF s = <<>> THEN acc ELSE DigitsValue(Tail(s), acc * 10 + DigitVal(Head(s)))

\* the longest prefix of s made of digits
RECURSIVE DigitPrefix(_)
DigitPrefix(s) ==
  IF s # <<>> /\ IsDigit(Head(s)) THEN <<Head(s)>> \o DigitPrefix(Tail(s)) ELSE <<>>

\* parseInt(s, 10): leading white space is skipped, then an optional sign,
\* then the longest run of digits; NaN when there is no digit.
parseInt(s) ==
  LET t    == TrimLeft(s)
      neg  == t # <<>> /\ Head(t) = "-"
      body == IF t # <<>> /\ Head(t) \in {"-", "+"} THEN Tail(t) ELSE t
      ds   == DigitPrefix(body)
  IN  IF ds = <<>> THEN NaN
      ELSE IF neg THEN 0 - DigitsValue(ds, 0) ELSE DigitsValue(ds, 0)

\* String.prototype.split(sep) for a one-character separator
RECURSIVE split(_, _)
split(s, sep) ==
  IF \E i \in DOMAIN s : s[i] = sep
  THEN LET i == CHOOSE j \in DOMAIN s : s[j] = sep /\ \A k \in 1..(j - 1) : s[k] # sep
       IN  <<SubSeq(s, 1, i - 1)>> \o split(SubSeq(s, i + 1, Len(s)), sep)
  ELSE <<s>>

\* s.match(/(\d+)/): the first maximal run of digits, <<>> when none
RECURSIVE FirstDigitRun(_)
FirstDigitRun(s) ==
  IF s = <<>> THEN <<>>
  ELSE IF IsDigit(Head(s)) THEN DigitPrefix(s)
       ELSE FirstDigitRun(Tail(s))

(***************************************************************************)
(* Dates: the JavaScript Date object as the worker uses it                 *)
(***************************************************************************)
MinutesPerDay == 1440

\* the null returned by parseIndianDate when no date could be read
NullDate == -888888

\* day number (days since 1970-01-01) of the proleptic Gregorian date
\* y-m-d, m in 1..12 (ECMAScript MakeDay for an in-range month)
DaysFromCivil(y, m, d) ==
  LET yy  == IF m <= 2 THEN y - 1 ELSE y
      era == yy \div 400
      yoe == yy - era * 400
      mp  == (m + 9) % 12
      doy == (153 * mp + 2) \div 5 + d - 1
      doe == yoe * 365 + yoe \div 4 - yoe \div 100 + doy
  IN  era * 146097 + doe - 719468

\* the inverse: <<year, month, day>> of a day number
CivilFromDays(z) ==
  LET zz  == z + 719468
      era == zz \div 146097
      doe == zz - era * 146097
      yoe == (doe - doe \div 1460 + doe \div 36524 - doe \div 146096) \div 365
      doy == doe - (365 * yoe + yoe \div 4 - yoe \div 100)
      mp  == (5 * doy + 2) \div 153
      d   == doy - (153 * mp + 2) \div 5 + 1
      m   == IF mp < 10 THEN mp + 3 ELSE mp - 9
      y   == yoe + era * 400
  IN  <<IF m <= 2 THEN y + 1 ELSE y, m, d>>

\* new Date(year, monthIndex, day) in a process whose local time is UTC+tz
\* minutes: local midnight of the date; a month index outside 0..11 and a
\* day outside the month roll over into the neighbouring months and years,
\* and a year in 0..99 means 1900 + year.
NewDateLocal(year, monthIndex, day, tz) ==
  LET y0 == IF year >= 0 /\ year <= 99 THEN 1900 + year ELSE year
      ym == y0 + monthIndex \div 12
      mn == monthIndex % 12
  IN  (DaysFromCivil(ym, mn + 1, 1) + day - 1) * MinutesPerDay - tz

\* Date.prototype.toString() in a process whose local time is UTC+tz: the
\* local calendar date and wall-clock time followed by the zone, e.g.
\* "Sun Feb 15 2026 00:00:00 GMT+0530 (India Standard Time)".
DateToString(t, tz) ==
  LET local == t + tz
      ymd   == CivilFromDays(local \div MinutesPerDay)
      mod   == local % MinutesPerDay
  IN  <<ymd[1], ymd[2], ymd[3], mod \div 60, mod % 60, tz>>

\* validators.ts generateDataHash, run in a process whose local time is
\* UTC+tz.  The template literal renders the Date with toString(); SHA-256
\* and the "-" joins are kept as the triple of the rendered parts (an
\* injective encoding of the hashed text).
generateDataHash(person, tz) ==
  <<person.name, DateToString(person.lastSeenDate, tz), person.sourceURL>>

IsSep(c) == c \in {"-", "/"}

AllDigits(s, from, n) ==
  /\ from >= 1
  /\ from + n - 1 <= Len(s)
  /\ \A k \in from..(from + n - 1) : IsDigit(s[k])

\* /(\d{1,2})[-\/](\d{1,2})[-\/](\d{4})/ matched at position i with a day of
\* a digits and a month of b digits
MatchDMYAt(s, i, a, b) ==
  /\ AllDigits(s, i, a)
  /\ i + a <= Len(s) /\ IsSep(s[i + a])
  /\ AllDigits(s, i + a + 1, b)
  /\ i + a + b + 1 <= Len(s) /\ IsSep(s[i + a + b + 1])
  /\ AllDigits(s, i + a + b + 2, 4)

HasDMY(s) == \E i \in DOMAIN s, a \in 1..2, b \in 1..2 : MatchDMYAt(s, i, a, b)

\* the leftmost match, each \d{1,2} greedy: <<day, month, year>> as numbers
MatchDMY(s) ==
  LET i == CHOOSE j \in DOMAIN s :
             /\ \E a \in 1..2, b \in 1..2 : MatchDMYAt(s, j, a, b)
             /\ \A k \in 1..(j - 1) : \A a \in 1..2, b \in 1..2 : ~MatchDMYAt(s, k, a, b)
      a == IF \E b \in 1..2 : MatchDMYAt(s, i, 2, b) THEN 2 ELSE 1
      b == IF MatchDMYAt(s, i, a, 2) THEN 2 ELSE 1
  IN  <<parseInt(SubSeq(s, i, i + a - 1)),
        parseInt(SubSeq(s, i + a + 1, i + a + b)),
        parseInt(SubSeq(s, i + a + b + 2, i + a + b + 5))>>

\* the longest prefix of s made of letters
RECURSIVE LetterPrefix(_)
LetterPrefix(s) ==
  IF s # <<>> /\ IsLetter(Head(s)) THEN <<Head(s)>> \o LetterPrefix(Tail(s)) ELSE <<>>

\* /(\d{1,2})\s+([A-Za-z]+)\s+(\d{4})/ matched at position i with a day of a
\* digits, on a normalized text (white space is single blanks)
MatchDMonYAt(s, i, a) ==
  /\ AllDigits(s, i, a)
  /\ i + a <= Len(s) /\ s[i + a] = " "
  /\ LET w == LetterPrefix(SubSeq(s, i + a + 1, Len(s)))
         e == i + a + Len(w)
     IN  /\ w # <<>>
         /\ e + 1 <= Len(s) /\ s[e + 1] = " "
         /\ AllDigits(s, e + 2, 4)

HasDMonY(s) == \E i \in DOMAIN s, a \in 1..2 : MatchDMonYAt(s, i, a)

\* <<day text, month word, year text>> of the leftmost match
MatchDMonY(s) ==
  LET i == CHOOSE j \in DOMAIN s :
             /\ \E a \in 1..2 : MatchDMonYAt(s, j, a)
             /\ \A k \in 1..(j - 1) : \A a \in 1..2 : ~MatchDMonYAt(s, k, a)
      a == IF MatchDMonYAt(s, i, 2) THEN 2 ELSE 1
      w == LetterPrefix(SubSeq(s, i + a + 1, Len(s)))
      e == i + a + Len(w)
  IN  <<SubSeq(s, i, i + a - 1), w, SubSeq(s, e + 2, e + 5)>>

MonthPrefixes ==
  <<<<"j", "a", "n">>, <<"f", "e", "b">>, <<"m", "a", "r">>, <<"a", "p", "r">>,
    <<"m", "a", "y">>, <<"j", "u", "n">>, <<"j", "u", "l">>, <<"a", "u", "g">>,
    <<"s", "e", "p">>, <<"o", "c", "t">>, <<"n", "o", "v">>, <<"d", "e", "c">>>>

\* month number 1..12 of a month name in short or long form, 0 for any
\* other word (the engine's date parser compares the first three letters)
MonthOfWord(w) ==
  LET p == toLowerCase(substring0(w, 3))
  IN  IF \E m \in DOMAIN MonthPrefixes : MonthPrefixes[m] = p
      THEN CHOOSE m \in DOMAIN MonthPrefixes : MonthPrefixes[m] = p
      ELSE 0

IsLeap(y) == (y % 4 = 0 /\ y % 100 # 0) \/ y % 400 = 0

DaysInMonth(y, m) ==
  IF m = 2 THEN (IF IsLeap(y) THEN 29 ELSE 28)
  ELSE IF m \in {4, 6, 9, 11} THEN 30 ELSE 31

\* new Date(`${monthStr} ${day}, ${year}`): local midnight of a real
\* calendar date, Invalid Date (NullDate here, as the caller maps it to
\* null) for a word that is no month name or a day the month does not have
NewDateMonthName(monthStr, day, year, tz) ==
  LET m == MonthOfWord(monthStr)
      d == parseInt(day)
      y == parseInt(year)
  IN  IF m = 0 \/ d < 1 \/ d > DaysInMonth(y, m) THEN NullDate
      ELSE NewDateLocal(y, m - 1, d, tz)

\* new Date(text) for the remaining texts: the ISO date-only form
\* YYYY-MM-DD of a real calendar date is midnight UTC whatever the local
\* zone; every other text is Invalid Date
NewDateNative(s) ==
  IF /\ Len(s) = 10
     /\ AllDigits(s, 1, 4) /\ s[5] = "-" /\ AllDigits(s, 6, 2)
     /\ s[8] = "-" /\ AllDigits(s, 9, 2)
  THEN LET y == parseInt(SubSeq(s, 1, 4))
           m == parseInt(SubSeq(s, 6, 7))
           d == parseInt(SubSeq(s, 9, 10))
       IN  IF m < 1 \/ m > 12 \/ d < 1 \/ d > DaysInMonth(y, m) THEN NullDate
           ELSE DaysFromCivil(y, m, d) * MinutesPerDay
  ELSE NullDate

\* validators.ts parseIndianDate, run in a process whose local time is
\* UTC+tz
parseIndianDate(dateString, tz) ==
  LET normalized == normalizeText(dateString)
  IN  IF HasDMY(normalized)
      THEN LET m == MatchDMY(normalized)
           IN  NewDateLocal(m[3], m[2] - 1, m[1], tz)
      ELSE IF HasDMonY(normalized)
      THEN LET m == MatchDMonY(normalized)
           IN  NewDateMonthName(m[2], m[1], m[3], tz)
      ELSE NewDateNative(normalized)

(***************************************************************************)
(* Candidate records and their validation                                  *)
(***************************************************************************)
\* packages/shared types.ts enums
StatusMissing == "missing"

StatusFound == "found"

GenderMale == "male"

GenderFemale == "female"

GenderOther == "other"

Genders == {GenderMale, GenderFemale, GenderOther}

Statuses == {StatusMissing, StatusFound}

\* an optional field that the object does not have
Absent == <<>>

ErrName == "Name is required and must be a string"

ErrAge == "Age must be a number between 0 and 150"

ErrGender == "Gender must be male, female, or other"

ErrDate == "Last seen date must be a valid date"

ErrLocation == "Last known location is required"

\* person.lastSeenDate instanceof Date
IsDateObject(x) == x # NullDate

\* the same rules without the one on age
validateExtractedDataNoAge(person) ==
  (IF person.name = <<>> THEN <<ErrName>> ELSE <<>>)
  \o (IF person.gender \notin Genders THEN <<ErrGender>> ELSE <<>>)
  \o (IF ~IsDateObject(person.lastSeenDate) THEN <<ErrDate>> ELSE <<>>)
  \o (IF person.lastKnownLocation = <<>> THEN <<ErrLocation>> ELSE <<>>)

\* validators.ts validateExtractedData: the list of failed rules, in the
\* order the code checks them (valid = the list is empty)
validateExtractedData(person) ==
  (IF person.name = <<>> THEN <<ErrName>> ELSE <<>>)
  \o (IF NumLt(person.age, 0) \/ NumGt(person.age, 150) THEN <<ErrAge>> ELSE <<>>)
  \o (IF person.gender \notin Genders THEN <<ErrGender>> ELSE <<>>)
  \o (IF ~IsDateObject(person.lastSeenDate) THEN <<ErrDate>> ELSE <<>>)
  \o (IF person.lastKnownLocation = <<>> THEN <<ErrLocation>> ELSE <<>>)

\* the indices of the candidates that transform() pushes to `valid`
RECURSIVE ValidIndices(_, _)
ValidIndices(raw, i) ==
  IF i > Len(raw) THEN <<>>
  ELSE (IF validateExtractedData(raw[i]) = <<>> THEN <<i>> ELSE <<>>)
       \o ValidIndices(raw, i + 1)

\* ... and of those it pushes to `invalid`
RECURSIVE InvalidIndices(_, _)
InvalidIndices(raw, i) ==
  IF i > Len(raw) THEN <<>>
  ELSE (IF validateExtractedData(raw[i]) # <<>> THEN <<i>> ELSE <<>>)
       \o InvalidIndices(raw, i + 1)

\* transformer.ts DataTransformer.transform
transform(rawRecords) ==
  [valid   |-> [k \in DOMAIN ValidIndices(rawRecords, 1) |->
                  rawRecords[ValidIndices(rawRecords, 1)[k]]],
   invalid |-> [k \in DOMAIN InvalidIndices(rawRecords, 1) |->
                  [data   |-> rawRecords[InvalidIndices(rawRecords, 1)[k]],
                   errors |-> validateExtractedData(
                                rawRecords[InvalidIndices(rawRecords, 1)[k]])]]]

(***************************************************************************)
(* The three scrapers, one row at a time.  A row is the sequence of its    *)
(* cell texts; the result is the set of possible outcomes, each <<>> (row  *)
(* skipped) or <<record>>.                                                 *)
(***************************************************************************)
Cell(row, k) == IF k <= Len(row) THEN row[k] ELSE <<>>

MaharashtraURL == "https://avm.maharashtra.gov.in/PublicUtility/MissingPerson.aspx"

KarnatakaURL == "https://www.sugamkbc.gov.in"

DelhiURL == "https://zipnet.delhipolice.gov.in/victims/missingpersons/"

\* GeoJSON coordinates are kept in units of 1/10000 degree
MaharashtraCenter == <<757139, 197515>>

KarnatakaCenter == <<757139, 153173>>

\* stateSrapers.ts: gender inference shared by the Maharashtra and
\* Karnataka scrapers
StateGender(genderStr) ==
  IF includes(genderStr, <<"m", "a", "l", "e">>) THEN GenderMale
  ELSE IF includes(genderStr, <<"f", "e", "m", "a", "l", "e">>) THEN GenderFemale
  ELSE GenderOther

\* stateSrapers.ts MaharashtraScraper.scrape, body of the row callback
MaharashtraRow(row, tz) ==
  LET name         == normalizeText(Cell(row, 1))
      ageStr       == Cell(row, 2)
      genderStr    == toLowerCase(normalizeText(Cell(row, 3)))
      lastSeenStr  == Cell(row, 4)
      location     == normalizeText(Cell(row, 5))
      statusStr    == toLowerCase(normalizeText(Cell(row, 6)))
      age          == parseInt(ageStr)
      lastSeenDate == parseIndianDate(lastSeenStr, tz)
  IN  IF name = <<>> \/ location = <<>> THEN {<<>>}
      ELSE IF isNaN(age) \/ age < 0 \/ age > 150 THEN {<<>>}
      ELSE IF lastSeenDate = NullDate THEN {<<>>}
      ELSE {<<[name              |-> name,
               age               |-> age,
               gender            |-> StateGender(genderStr),
               lastSeenDate      |-> lastSeenDate,
               lastKnownLocation |-> location,
               status            |-> IF includes(statusStr, <<"f", "o", "u", "n", "d">>)
                                     THEN StatusFound ELSE StatusMissing,
               description       |-> Absent,
               sourceState       |-> <<"M", "a", "h", "a", "r", "a", "s", "h", "t", "r", "a">>,
               sourceURL         |-> MaharashtraURL,
               geolocation       |-> MaharashtraCenter,
               dataHash          |-> generateDataHash(
                                       [name |-> name, lastSeenDate |-> lastSeenDate,
                                        sourceURL |-> MaharashtraURL], tz)]>>}

\* stateSrapers.ts KarnatakaScraper.scrape, body of the element callback;
\* the row holds the texts of data-name, data-age, data-gender,
\* data-last-seen and data-location
KarnatakaRow(row, tz) ==
  LET name         == normalizeText(Cell(row, 1))
      age          == parseInt(Cell(row, 2))
      genderStr    == toLowerCase(normalizeText(Cell(row, 3)))
      lastSeenStr  == Cell(row, 4)
      location     == normalizeText(Cell(row, 5))
      lastSeenDate == parseIndianDate(lastSeenStr, tz)
  IN  IF name = <<>> \/ location = <<>> \/ isNaN(age) THEN {<<>>}
      ELSE IF lastSeenDate = NullDate THEN {<<>>}
      ELSE {<<[name              |-> name,
               age               |-> age,
               gender            |-> StateGender(genderStr),
               lastSeenDate      |-> lastSeenDate,
               lastKnownLocation |-> location,
               status            |-> StatusMissing,
               description       |-> Absent,
               sourceState       |-> <<"K", "a", "r", "n", "a", "t", "a", "k", "a">>,
               sourceURL         |-> KarnatakaURL,
               geolocation       |-> KarnatakaCenter,
               dataHash          |-> generateDataHash(
                                       [name |-> name, lastSeenDate |-> lastSeenDate,
                                        sourceURL |-> KarnatakaURL], tz)]>>}

\* String.prototype.toUpperCase
toUpperCase(s) ==
  [i \in DOMAIN s |->
     IF s[i] \in Range(LowerAlphabet)
     THEN UpperAlphabet[CHOOSE k \in DOMAIN LowerAlphabet : LowerAlphabet[k] = s[i]]
     ELSE s[i]]

DelhiCenter == <<287041, 771025>>

\* stateCoords: upper-cased state name -> center
stateCoords ==
  <<<<<<"D", "E", "L", "H", "I">>, <<287041, 771025>>>>,
    <<<<"H", "A", "R", "Y", "A", "N", "A">>, <<290588, 770745>>>>,
    <<<<"R", "A", "J", "A", "S", "T", "H", "A", "N">>, <<270238, 742179>>>>,
    <<<<"U", "T", "T", "R", "A", "K", "H", "A", "N", "D">>, <<300668, 790193>>>>,
    <<<<"U", "T", "T", "A", "R", "A", "K", "H", "A", "N", "D">>, <<300668, 790193>>>>,
    <<<<"P", "U", "N", "J", "A", "B">>, <<311471, 753412>>>>,
    <<<<"H", "I", "M", "A", "C", "H", "A", "L", "_", "P", "R", "A", "D", "E", "S", "H">>, <<317433, 771205>>>>,
    <<<<"C", "H", "A", "N", "D", "I", "G", "A", "R", "H">>, <<307333, 767794>>>>,
    <<<<"J", "A", "M", "M", "U", "_", "A", "N", "D", "_", "K", "A", "S", "H", "M", "I", "R">>, <<340837, 747973>>>>>>

\* DelhiZIPNETScraper.getStateCoordinates
getStateCoordinates(state) ==
  LET stateUpper == trim(toUpperCase(state))
  IN  IF \E k \in DOMAIN stateCoords : stateCoords[k][1] = stateUpper
      THEN stateCoords[CHOOSE k \in DOMAIN stateCoords : stateCoords[k][1] = stateUpper][2]
      ELSE DelhiCenter

\* the values Math.floor(Math.random() * 50 + 15) is followed through: the
\* two ends of its range 15..64
FallbackAges == {15, 64}

\* DelhiZIPNETScraper.scrape, body of the row callback; a row
\* is [cells |-> the texts of its td cells, alt |-> the alt text of its img]
DelhiRow(row, tz) ==
  LET cells         == row.cells
      stateStr      == normalizeText(Cell(cells, 1))
      district      == normalizeText(Cell(cells, 2))
      policeStation == normalizeText(Cell(cells, 3))
      firNumber     == normalizeText(Cell(cells, 4))
      dateStr       == normalizeText(Cell(cells, 5))
      serialNumber  == normalizeText(Cell(cells, 6))
      location      == normalizeText(Cell(cells, 7))
      statusStr     == toLowerCase(normalizeText(Cell(cells, 8)))
      imageAlt      == row.alt
      parts         == [k \in DOMAIN split(imageAlt, "|") |->
                          normalizeText(split(imageAlt, "|")[k])]
      name0         == IF serialNumber # <<>> /\ serialNumber # <<"-">>
                       THEN substring0(serialNumber, 50)
                       ELSE <<"U", "n", "k", "n", "o", "w", "n">>
      name          == IF imageAlt # <<>> /\ parts[1] # <<>> THEN parts[1] ELSE name0
      hasPart2      == imageAlt # <<>> /\ Len(parts) > 1
      ageRun        == IF hasPart2 THEN FirstDigitRun(parts[2]) ELSE <<>>
      age0          == IF ageRun # <<>> THEN parseInt(ageRun) ELSE 0
      genderStr     == IF hasPart2 THEN toLowerCase(parts[2]) ELSE <<>>
      gender        == IF includes(genderStr, <<"m">>) /\ ~includes(genderStr, <<"f">>)
                       THEN GenderMale
                       ELSE IF includes(genderStr, <<"f">>) THEN GenderFemale ELSE GenderOther
      lastSeenDate  == parseIndianDate(dateStr, tz)
      ages          == IF age0 = 0 \/ age0 < 0 \/ age0 > 150 THEN FallbackAges ELSE {age0}
      status        == IF includes(statusStr, <<"f", "o", "u", "n", "d">>)
                          \/ includes(statusStr, <<"t", "r", "a", "c", "e", "d">>)
                       THEN StatusFound ELSE StatusMissing
      sourceState   == IF stateStr # <<>> THEN stateStr ELSE <<"D", "e", "l", "h", "i">>
  IN  IF Len(cells) < 7 THEN {<<>>}
      ELSE IF name = <<>> \/ name = <<"U", "n", "k", "n", "o", "w", "n">> \/ location = <<>> THEN {<<>>}
      ELSE IF lastSeenDate = NullDate THEN {<<>>}
      ELSE {<<[name              |-> substring0(name, 255),
               age               |-> age,
               gender            |-> gender,
               lastSeenDate      |-> lastSeenDate,
               lastKnownLocation |-> location \o <<",", " ">> \o district
                                       \o <<",", " ">> \o sourceState,
               status            |-> status,
               description       |-> <<firNumber, policeStation>>,
               sourceState       |-> sourceState,
               sourceURL         |-> DelhiURL,
               geolocation       |-> getStateCoordinates(sourceState),
               dataHash          |-> generateDataHash(
                                       [name |-> substring0(name, 255),
                                        lastSeenDate |-> lastSeenDate,
                                        sourceURL |-> DelhiURL], tz)]>> : age \in ages}

(***************************************************************************)
(* What the three sites may serve.  A page is a sequence of rows.          *)
(***************************************************************************)
RowAshaMissing ==
  <<<<" ", "A", "s", "h", "a", " ", " ", "R", "a", "o", " ">>,
    <<"2", "9">>,
    <<"F", "e", "m", "a", "l", "e">>,
    <<"1", "5", "/", "0", "2", "/", "2", "0", "2", "6">>,
    <<"P", "u", "n", "e">>,
    <<"M", "i", "s", "s", "i", "n", "g">>>>

RowAshaFound ==
  <<<<"A", "s", "h", "a", " ", "R", "a", "o">>,
    <<"3", "1">>,
    <<"F">>,
    <<"1", "5", "-", "0", "2", "-", "2", "0", "2", "6">>,
    <<"N", "a", "s", "h", "i", "k">>,
    <<"F", "o", "u", "n", "d">>>>

RowAge200 ==
  <<<<"R", "a", "v", "i">>,
    <<"2", "0", "0">>,
    <<"M", "a", "l", "e">>,
    <<"1", "5", "-", "0", "2", "-", "2", "0", "2", "6">>,
    <<"P", "u", "n", "e">>,
    <<"M", "i", "s", "s", "i", "n", "g">>>>

RowBadDate ==
  <<<<"R", "a", "v", "i">>,
    <<"4", "0">>,
    <<"M", "a", "l", "e">>,
    <<"u", "n", "k", "n", "o", "w", "n">>,
    <<"P", "u", "n", "e">>,
    <<"M", "i", "s", "s", "i", "n", "g">>>>

ElemAsha ==
  <<<<"A", "s", "h", "a", " ", "R", "a", "o">>,
    <<"2", "9">>,
    <<"f", "e", "m", "a", "l", "e">>,
    <<"1", "5", " ", "F", "e", "b", " ", "2", "0", "2", "6">>,
    <<"M", "y", "s", "u", "r", "u">>>>

ElemAge200 ==
  <<<<"R", "a", "v", "i">>,
    <<"2", "0", "0">>,
    <<"m", "a", "l", "e">>,
    <<"1", "5", "/", "0", "2", "/", "2", "0", "2", "6">>,
    <<"M", "y", "s", "u", "r", "u">>>>

ElemBadDate ==
  <<<<"R", "a", "v", "i">>,
    <<"4", "0">>,
    <<"m", "a", "l", "e">>,
    <<"n", "/", "a">>,
    <<"M", "y", "s", "u", "r", "u">>>>

ZipUntraced ==
  [cells |-> <<<<"D", "E", "L", "H", "I">>,
              <<"S", "O", "U", "T", "H">>,
              <<"K", "A", "L", "I", "N", "D", "I", " ", "K", "U", "N", "J">>,
              <<"M", "P", "-", "5", "3", "6">>,
              <<"1", "5", "/", "0", "2", "/", "2", "0", "2", "6">>,
              <<"-">>,
              <<"J", "J", " ", "C", "o", "l", "o", "n", "y">>,
              <<"U", "n", "t", "r", "a", "c", "e", "d">>,
              <<"1", "5", "/", "0", "2", "/", "2", "0", "2", "6">>>>,
   alt   |-> <<"A", "s", "h", "a", " ", "R", "a", "o", " ", "|", " ", "2", "9", " ", "F">>]

ZipPending ==
  [cells |-> <<<<"H", "A", "R", "Y", "A", "N", "A">>,
              <<"G", "U", "R", "U", "G", "R", "A", "M">>,
              <<"S", "A", "D", "A", "R">>,
              <<"M", "P", "-", "5", "4", "0">>,
              <<"1", "5", "/", "0", "2", "/", "2", "0", "2", "6">>,
              <<"-">>,
              <<"S", "e", "c", "t", "o", "r", " ", "4">>,
              <<"P", "e", "n", "d", "i", "n", "g">>,
              <<"1", "6", "/", "0", "2", "/", "2", "0", "2", "6">>>>,
   alt   |-> <<"A", "s", "h", "a", " ", "R", "a", "o", " ", "|", " ", "3", "1", " ", "F">>]

ZipAge200 ==
  [cells |-> <<<<"H", "A", "R", "Y", "A", "N", "A">>,
              <<"G", "U", "R", "U", "G", "R", "A", "M">>,
              <<"S", "A", "D", "A", "R">>,
              <<"M", "P", "-", "5", "3", "8">>,
              <<"1", "4", "/", "0", "2", "/", "2", "0", "2", "6">>,
              <<"-">>,
              <<"S", "e", "c", "t", "o", "r", " ", "4">>,
              <<"P", "e", "n", "d", "i", "n", "g">>,
              <<"1", "5", "/", "0", "2", "/", "2", "0", "2", "6">>>>,
   alt   |-> <<"R", "a", "v", "i", " ", "|", " ", "2", "0", "0", " ", "M">>]

RowAshaIso ==
  <<<<"A", "s", "h", "a", " ", "R", "a", "o">>,
    <<"2", "9">>,
    <<"F", "e", "m", "a", "l", "e">>,
    <<"2", "0", "2", "6", "-", "0", "2", "-", "1", "5">>,
    <<"P", "u", "n", "e">>,
    <<"M", "i", "s", "s", "i", "n", "g">>>>

Sources == <<"Maharashtra", "Karnataka", "Delhi">>

Rows(s) ==
  IF s = "Maharashtra" THEN {RowAshaMissing, RowAshaFound, RowAge200, RowBadDate}
  ELSE IF s = "Karnataka" THEN {ElemAsha, ElemAge200, ElemBadDate}
  ELSE {ZipUntraced, ZipPending, ZipAge200}

\* the longest page a site serves
MaxRows == 2

Pages(s) == UNION {[1..n -> Rows(s)] : n \in 0..MaxRows}

\* what a source serves while another source is the one under study: an
\* empty listing (the sourceURL is part of the hash, so the records of two
\* sources never meet in insertRecords)
QuietPages(s) == {<<>>}

\* the listings served while two workers run at once: one person, listed as
\* missing and as found, with the date in two notations
RacePages(s) ==
  IF s = "Maharashtra"
  THEN {<<RowAshaIso>>, <<RowAshaMissing, RowAshaFound>>}
  ELSE QuietPages(s)

RowOutcomes(s, row, tz) ==
  IF s = "Maharashtra" THEN MaharashtraRow(row, tz)
  ELSE IF s = "Karnataka" THEN KarnatakaRow(row, tz)
  ELSE DelhiRow(row, tz)

\* the possible results of scrape() on a page: the pushed records in row
\* order, each with the index of the row it was built from
RECURSIVE ScrapeOutcomes(_, _, _, _)
ScrapeOutcomes(s, page, i, tz) ==
  IF i > Len(page) THEN {<<>>}
  ELSE {[k \in DOMAIN o |-> [row |-> i, record |-> o[k]]] \o rest :
          o \in RowOutcomes(s, page[i], tz),
          rest \in ScrapeOutcomes(s, page, i + 1, tz)}

(***************************************************************************)
(* The MongoDB collection behind MissingPersonModel                        *)
(***************************************************************************)
\* MissingPersonSchema: what Mongoose validation lets create() save
SchemaValid(record) ==
  /\ record.name # <<>> /\ Len(record.name) <= 255
  /\ ~isNaN(record.age) /\ record.age >= 0 /\ record.age <= 150
  /\ record.gender \in Genders
  /\ IsDateObject(record.lastSeenDate)
  /\ record.lastKnownLocation # <<>>
  /\ record.status \in Statuses
  /\ record.sourceURL # ""
  /\ record.sourceState # <<>>

\* a collection without the unique index: no insert is rejected
NoUniqueIndex(coll, record) == FALSE

\* the unique index on dataHash: true when the collection already holds
\* the hash, and the insert is rejected with E11000
DuplicateKey(coll, record) == \E d \in coll : d.dataHash = record.dataHash

\* the document create() writes (timestamps: true)
NewDocument(record, id, time) ==
  [id                |-> id,
   name              |-> record.name,
   age               |-> record.age,
   gender            |-> record.gender,
   lastSeenDate      |-> record.lastSeenDate,
   lastKnownLocation |-> record.lastKnownLocation,
   status            |-> record.status,
   description       |-> record.description,
   sourceState       |-> record.sourceState,
   sourceURL         |-> record.sourceURL,
   geolocation       |-> record.geolocation,
   dataHash          |-> record.dataHash,
   createdAt         |-> time,
   updatedAt         |-> time]

\* an update document that carries the whole incoming record ($set: record)
UpdateDocumentWhole(record, time) ==
  [name              |-> record.name,
   age               |-> record.age,
   gender            |-> record.gender,
   lastSeenDate      |-> record.lastSeenDate,
   lastKnownLocation |-> record.lastKnownLocation,
   status            |-> record.status,
   description       |-> record.description,
   sourceState       |-> record.sourceState,
   sourceURL         |-> record.sourceURL,
   geolocation       |-> record.geolocation,
   updatedAt         |-> time]

\* the update document insertRecords passes to updateOne
UpdateDocument(record, time) == [status |-> record.status, updatedAt |-> time]

\* a store that removes the matched document (deleteOne)
deleteOne(coll, id, update) == {d \in coll : d.id # id}

\* a store that acknowledges the update without applying it
updateOneIgnored(coll, id, update) == coll

\* MissingPersonModel.updateOne({ _id: id }, update): the fields of the
\* update document are set on the document with that _id
updateOne(coll, id, update) ==
  {IF d.id = id
   THEN [f \in DOMAIN d |-> IF f \in DOMAIN update THEN update[f] ELSE d[f]]
   ELSE d : d \in coll}

\* MissingPersonModel.findOne({ dataHash }): the documents that match (the
\* store returns the first of them)
findOne(coll, hash) == {d \in coll : d.dataHash = hash}

(***************************************************************************)
(* State                                                                   *)
(***************************************************************************)
Workers == {"w1", "w2"}

\* the local time zones a worker process may be started in (minutes east
\* of UTC): UTC and Asia/Kolkata
TimeZones == {0, 330}

\* the clock reads 0 .. MaxTicks
MaxTicks == 1

\* the number of storage operations that fail for a reason of the store
MaxFaults == 1

VARIABLES
  db,            \* the documents of the collection missing_persons
  nextId,        \* the next _id the store assigns
  now,           \* the clock (new Date(), Date.now)
  faults,        \* storage operations failed so far
  tz,            \* tz[w]: the local time zone of worker process w
  sites,         \* sites[s]: the pages source s may serve
  pc,            \* pc[w]: where worker w is in runETLPipeline
  src,           \* src[w]: index in Sources of the source being processed
  page,          \* page[w]: the rows of the page fetched last
  origin,        \* origin[w][k]: the row scraped[w][k] was built from
  scraped,       \* the records returned by scrape()
  valid,         \* transform() result: valid
  invalid,       \* transform() result: invalid
  records,       \* insertRecords: its parameter records
  idx,           \* insertRecords: index of the record of the for loop
  existing,      \* insertRecords: the document findOne returned
  inserted,      \* insertRecords: counter
  duplicates,    \* insertRecords: counter
  results,       \* runETLPipeline: results[w][source index]
  errorLog,      \* errorLog[w]: entries w appended with ErrorLogger.logError
  validationLog, \* entries appended with ErrorLogger.logValidationErrors
  logBase,       \* history: Len(errorLog[w]) when insertRecords was entered
  trail,         \* history: trail[w][i], what happened to record i of the call
  callDb,        \* history: the collection when insertRecords was entered
  clean,         \* history: the current call met no failure and no other writer
  rerun,         \* history: the call repeats the batch the collection results from
  settled,       \* history: the batch a clean call left the collection with
  candidate,     \* the object handed to validateExtractedData
  validation,    \* what validateExtractedData returned for it
  fetchUrl,      \* HttpClient.fetch: its parameter url
  fetchPc,       \* HttpClient.fetch: where the call is
  attempt,       \* HttpClient.fetch: the loop variable attempt
  lastError,     \* HttpClient.fetch: the message of lastError
  requests,      \* history: the outcome of every axios.get of the call
  slept,         \* history: the delays the call slept, in ms
  fetchResult,   \* what the call returned or threw
  cache,         \* cache.ts: the Map of the cache middleware, key -> entry
  clock,         \* the API server's Date.now(), in minutes since the epoch
  served,        \* the requests the API server answered so far
  reply,         \* the response the API server sent last
  dateString,    \* parseIndianDate: its parameter dateString
  parsedDate,    \* what parseIndianDate returned for it
  main           \* main() of the worker: where it is, what it has called

vars ==
  <<db, nextId, now, faults, tz, sites, pc, src, page, origin, scraped, valid,
    invalid, records, idx, existing, inserted, duplicates, results, errorLog,
    validationLog, logBase, trail, callDb, clean, rerun, settled, candidate,
    validation, fetchUrl, fetchPc, attempt, lastError, requests, slept,
    fetchResult, cache, clock, served, reply, dateString, parsedDate, main>>

storeVars == <<db, nextId>>

\* the state of the components studied on their own
validateVars == <<candidate, validation, dateString, parsedDate>>

fetchVars == <<fetchUrl, fetchPc, attempt, lastError, requests, slept, fetchResult>>

serverVars == <<cache, clock, served, reply>>

sideVars == <<validateVars, fetchVars, serverVars>>

envVars == <<tz, sites, sideVars, main>>

\* the state of the worker pipeline and of the collection
workerVars ==
  <<db, nextId, now, faults, tz, sites, pc, src, page, origin, scraped, valid,
    invalid, records, idx, existing, inserted, duplicates, results, errorLog,
    validationLog, logBase, trail, callDb, clean, rerun, settled, main>>

scrapeVars == <<page, origin, scraped>>

transformVars == <<valid, invalid, validationLog>>

callVars == <<logBase, callDb, rerun>>

NoDocument == [id |-> 0]

NoResult ==
  [scraped |-> 0, valid |-> 0, invalid |-> 0, inserted |-> 0, duplicates |-> 0,
   error |-> "null"]

NotSettled == [set |-> FALSE, batch |-> <<>>]

\* main() has not been called
NotStarted == [at |-> "off", shutdown |-> FALSE, exitCode |-> -1]

\* main() awaits worker.runETLPipeline()
InPipeline == [at |-> "pipeline", shutdown |-> FALSE, exitCode |-> -1]

\* the state shared by every start: an empty collection, nothing run yet
Fresh ==
  /\ db = {}
  /\ nextId = 1
  /\ now = 0
  /\ faults = 0
  /\ src = [w \in Workers |-> 1]
  /\ page = [w \in Workers |-> <<>>]
  /\ origin = [w \in Workers |-> <<>>]
  /\ scraped = [w \in Workers |-> <<>>]
  /\ valid = [w \in Workers |-> <<>>]
  /\ invalid = [w \in Workers |-> <<>>]
  /\ records = [w \in Workers |-> <<>>]
  /\ idx = [w \in Workers |-> 1]
  /\ existing = [w \in Workers |-> NoDocument]
  /\ inserted = [w \in Workers |-> 0]
  /\ duplicates = [w \in Workers |-> 0]
  /\ results = [w \in Workers |-> [i \in DOMAIN Sources |-> NoResult]]
  /\ errorLog = [w \in Workers |-> <<>>]
  /\ validationLog = [w \in Workers |-> <<>>]
  /\ logBase = [w \in Workers |-> 0]
  /\ trail = [w \in Workers |-> <<>>]
  /\ callDb = [w \in Workers |-> {}]
  /\ clean = [w \in Workers |-> TRUE]
  /\ rerun = [w \in Workers |-> FALSE]
  /\ settled = NotSettled

NotValidated == [done |-> FALSE, valid |-> FALSE, errors |-> <<>>]

\* no object is under validation
CandidateIdle ==
  /\ candidate = [name |-> <<>>, age |-> 0, gender |-> GenderOther,
                  lastSeenDate |-> NullDate, lastKnownLocation |-> <<>>]
  /\ validation = NotValidated

NotParsed == [done |-> FALSE, date |-> NullDate]

\* no date text is being parsed
DateIdle ==
  /\ dateString = <<>>
  /\ parsedDate = NotParsed

\* the validators are at rest
ValidatorIdle == CandidateIdle /\ DateIdle

NoFetchResult == [kind |-> "none"]

\* no fetch is under way
FetchIdle ==
  /\ fetchUrl = ""
  /\ fetchPc = "idle"
  /\ attempt = 0
  /\ lastError = "null"
  /\ requests = <<>>
  /\ slept = <<>>
  /\ fetchResult = NoFetchResult

NoReply == [status |-> 0]

\* the API server is not running
ServerIdle ==
  /\ cache = <<>>
  /\ clock = 0
  /\ served = 0
  /\ reply = NoReply

\* the components studied on their own are at rest
SideIdle == ValidatorIdle /\ FetchIdle /\ ServerIdle

\* one worker process (w1) is launched, in the zone Asia/Kolkata; one source
\* serves any page of up to MaxRows rows, the other two a quiet page
Init ==
  /\ Fresh
  /\ tz = [w \in Workers |-> 330]
  /\ \E f \in Range(Sources) :
       sites = [s \in Range(Sources) |-> IF s = f THEN Pages(s) ELSE QuietPages(s)]
  /\ pc = [w \in Workers |-> IF w = "w1" THEN "scrape" ELSE "off"]
  /\ main = InPipeline
  /\ SideIdle

\* two worker processes are launched against the same collection, w2
\* possibly in another zone
InitRace ==
  /\ Fresh
  /\ tz \in {t \in [Workers -> TimeZones] : t["w1"] = 330}
  /\ sites = [s \in Range(Sources) |-> RacePages(s)]
  /\ pc = [w \in Workers |-> "scrape"]
  /\ main = InPipeline
  /\ SideIdle

(***************************************************************************)
(* runETLPipeline                                                          *)
(***************************************************************************)
InCall(w) == pc[w] \in {"find", "update", "create", "return"}

\* a run that goes from the first source straight to the last
ToNextSourceSkipping(w) ==
  /\ IF src[w] < Len(Sources)
     THEN /\ src' = [src EXCEPT ![w] = Len(Sources)]
          /\ pc' = [pc EXCEPT ![w] = "scrape"]
     ELSE /\ src' = src
          /\ pc' = [pc EXCEPT ![w] = "stats"]
  /\ page' = [page EXCEPT ![w] = <<>>]
  /\ origin' = [origin EXCEPT ![w] = <<>>]
  /\ scraped' = [scraped EXCEPT ![w] = <<>>]
  /\ valid' = [valid EXCEPT ![w] = <<>>]
  /\ invalid' = [invalid EXCEPT ![w] = <<>>]
  /\ records' = [records EXCEPT ![w] = <<>>]
  /\ idx' = [idx EXCEPT ![w] = 1]
  /\ existing' = [existing EXCEPT ![w] = NoDocument]
  /\ inserted' = [inserted EXCEPT ![w] = 0]
  /\ duplicates' = [duplicates EXCEPT ![w] = 0]
  /\ trail' = [trail EXCEPT ![w] = <<>>]

\* the try block of the next source, or the final statistics; the block's
\* constants and the locals of insertRecords go out of scope
ToNextSource(w) ==
  /\ IF src[w] < Len(Sources)
     THEN /\ src' = [src EXCEPT ![w] = @ + 1]
          /\ pc' = [pc EXCEPT ![w] = "scrape"]
     ELSE /\ src' = src
          /\ pc' = [pc EXCEPT ![w] = "stats"]
  /\ page' = [page EXCEPT ![w] = <<>>]
  /\ origin' = [origin EXCEPT ![w] = <<>>]
  /\ scraped' = [scraped EXCEPT ![w] = <<>>]
  /\ valid' = [valid EXCEPT ![w] = <<>>]
  /\ invalid' = [invalid EXCEPT ![w] = <<>>]
  /\ records' = [records EXCEPT ![w] = <<>>]
  /\ idx' = [idx EXCEPT ![w] = 1]
  /\ existing' = [existing EXCEPT ![w] = NoDocument]
  /\ inserted' = [inserted EXCEPT ![w] = 0]
  /\ duplicates' = [duplicates EXCEPT ![w] = 0]
  /\ trail' = [trail EXCEPT ![w] = <<>>]

\* scrape() resolves with the records of the page the site served
Scrape(w) ==
  /\ pc[w] = "scrape"
  /\ \E pg \in sites[Sources[src[w]]] :
       \E out \in ScrapeOutcomes(Sources[src[w]], pg, 1, tz[w]) :
         /\ page' = [page EXCEPT ![w] = pg]
         /\ scraped' = [scraped EXCEPT ![w] = [k \in DOMAIN out |-> out[k].record]]
         /\ origin' = [origin EXCEPT ![w] = [k \in DOMAIN out |-> out[k].row]]
         /\ results' = [results EXCEPT ![w][src[w]].scraped = Len(out)]
  /\ pc' = [pc EXCEPT ![w] = "transform"]
  /\ UNCHANGED <<storeVars, now, faults, envVars, src, transformVars, records, idx,
                 existing, inserted, duplicates, errorLog, trail, callVars, clean,
                 settled>>

\* a run in which a rejected scrape() is not caught per source: the error
\* leaves runETLPipeline
ScrapeFailsAborts(w) ==
  /\ pc[w] = "scrape"
  /\ results' = [results EXCEPT ![w][src[w]].error = "FETCH_FAILED"]
  /\ errorLog' = [errorLog EXCEPT ![w] =
                    Append(@, [state |-> Sources[src[w]], error |-> "FETCH_FAILED",
                               context |-> <<>>])]
  /\ pc' = [pc EXCEPT ![w] = "done"]
  /\ UNCHANGED <<storeVars, now, faults, envVars, src, scrapeVars, transformVars,
                 records, idx, existing, inserted, duplicates, trail, callVars, clean,
                 settled>>

\* scrape() rejects (HttpClient.fetch threw): the catch block of the source
ScrapeFails(w) ==
  /\ pc[w] = "scrape"
  /\ results' = [results EXCEPT ![w][src[w]].error = "FETCH_FAILED"]
  /\ errorLog' = [errorLog EXCEPT ![w] =
                    Append(@, [state |-> Sources[src[w]], error |-> "FETCH_FAILED",
                               context |-> <<>>])]
  /\ ToNextSource(w)
  /\ UNCHANGED <<storeVars, now, faults, envVars, validationLog, callVars, clean,
                 settled>>

\* handing over every candidate, the rejected ones included
RecordsArgumentAll(t) ==
  t.valid \o [k \in DOMAIN t.invalid |-> t.invalid[k].data]

\* the records runETLPipeline hands to insertRecords
RecordsArgument(t) == t.valid

\* transform() resolves; the invalid entries are logged and insertRecords
\* is entered, up to its first await
Transform(w) ==
  /\ pc[w] = "transform"
  /\ LET t == transform(scraped[w])
     IN  /\ valid' = [valid EXCEPT ![w] = t.valid]
         /\ invalid' = [invalid EXCEPT ![w] = t.invalid]
         /\ results' = [results EXCEPT ![w][src[w]].valid = Len(t.valid),
                                       ![w][src[w]].invalid = Len(t.invalid)]
         /\ validationLog' =
              IF Len(t.invalid) > 0
              THEN [validationLog EXCEPT ![w] =
                      Append(@, [state |-> Sources[src[w]],
                                 errorCount |-> Len(t.invalid),
                                 errors |-> t.invalid])]
              ELSE validationLog
         /\ records' = [records EXCEPT ![w] = RecordsArgument(t)]
         /\ trail' = [trail EXCEPT ![w] = [k \in DOMAIN RecordsArgument(t) |-> {}]]
         /\ rerun' = [rerun EXCEPT ![w] = settled.set /\ settled.batch = RecordsArgument(t)]
         /\ pc' = [pc EXCEPT ![w] = IF RecordsArgument(t) = <<>> THEN "return" ELSE "find"]
  /\ inserted' = [inserted EXCEPT ![w] = 0]
  /\ duplicates' = [duplicates EXCEPT ![w] = 0]
  /\ idx' = [idx EXCEPT ![w] = 1]
  /\ logBase' = [logBase EXCEPT ![w] = Len(errorLog[w])]
  /\ callDb' = [callDb EXCEPT ![w] = db]
  /\ clean' = [clean EXCEPT ![w] = TRUE]
  /\ UNCHANGED <<storeVars, now, faults, envVars, src, scrapeVars, existing,
                 errorLog, settled>>

(***************************************************************************)
(* DatabaseService.insertRecords                                           *)
(***************************************************************************)
\* the loop goes on to the next record, or the function returns
NextRecord(w) ==
  /\ idx' = [idx EXCEPT ![w] = @ + 1]
  /\ pc' = [pc EXCEPT ![w] = IF idx[w] + 1 > Len(records[w]) THEN "return" ELSE "find"]

\* history: what happened to the record of the loop
Mark(w, tags) == trail' = [trail EXCEPT ![w][idx[w]] = @ \cup tags]

\* a catch block that swallows the error: nothing is logged
CatchBlockSilent(w, error) ==
  /\ errorLog' = errorLog
  /\ Mark(w, {"logged", error} \cup (IF pc[w] = "find" THEN {"lookup"} ELSE {}))
  /\ NextRecord(w)

\* a try/catch around the whole loop instead of its body: the error is
\* logged and the function returns at once
CatchBlockAbort(w, error) ==
  /\ errorLog' = [errorLog EXCEPT ![w] =
                    Append(@, [state   |-> Sources[src[w]],
                               error   |-> error,
                               context |-> <<records[w][idx[w]].name,
                                             records[w][idx[w]].dataHash>>])]
  /\ Mark(w, {"logged", error} \cup (IF pc[w] = "find" THEN {"lookup"} ELSE {}))
  /\ idx' = idx
  /\ pc' = [pc EXCEPT ![w] = "return"]

\* the catch block of the loop body: console.error and ErrorLogger.logError
\* with the record's name and hash, then the next iteration
CatchBlock(w, error) ==
  /\ errorLog' = [errorLog EXCEPT ![w] =
                    Append(@, [state   |-> Sources[src[w]],
                               error   |-> error,
                               context |-> <<records[w][idx[w]].name,
                                             records[w][idx[w]].dataHash>>])]
  /\ Mark(w, {"logged", error} \cup (IF pc[w] = "find" THEN {"lookup"} ELSE {}))
  /\ NextRecord(w)

\* history: worker w is about to leave the collection as newDb
Writes(w, newDb) ==
  /\ clean' = [o \in Workers |->
                 IF o # w /\ InCall(o) /\ newDb # db THEN FALSE ELSE clean[o]]
  /\ settled' = IF newDb # db THEN NotSettled ELSE settled

\* history: a storage operation of worker w failed
Fails(w) ==
  /\ clean' = [clean EXCEPT ![w] = FALSE]
  /\ settled' = settled

\* findOne({ dataHash }) resolves; then the code up to the next await
FindOne(w) ==
  /\ pc[w] = "find"
  /\ LET record == records[w][idx[w]]
         hits   == findOne(db, record.dataHash)
     IN  IF hits # {}
         THEN LET found == CHOOSE d \in hits : \A e \in hits : d.id <= e.id
              IN  /\ duplicates' = [duplicates EXCEPT ![w] = @ + 1]
                  /\ Mark(w, {"lookup", "duplicate"})
                  /\ IF record.status # found.status
                     THEN /\ existing' = [existing EXCEPT ![w] = found]
                          /\ pc' = [pc EXCEPT ![w] = "update"]
                          /\ idx' = idx
                     ELSE /\ existing' = existing
                          /\ NextRecord(w)
         ELSE /\ pc' = [pc EXCEPT ![w] = "create"]
              /\ Mark(w, {"lookup"})
              /\ UNCHANGED <<duplicates, existing, idx>>
  /\ UNCHANGED <<storeVars, now, faults, envVars, src, scrapeVars, transformVars,
                 records, inserted, results, errorLog, callVars, clean, settled>>

\* findOne rejects
FindOneFails(w) ==
  /\ pc[w] = "find"
  /\ faults < MaxFaults
  /\ faults' = faults + 1
  /\ CatchBlock(w, "StorageError")
  /\ Fails(w)
  /\ UNCHANGED <<storeVars, now, envVars, src, scrapeVars, transformVars, records,
                 existing, inserted, duplicates, results, callVars>>

\* updateOne({ _id: existing._id }, { status, updatedAt }) resolves
UpdateOne(w) ==
  /\ pc[w] = "update"
  /\ LET newDb == updateOne(db, existing[w].id,
                            UpdateDocument(records[w][idx[w]], now))
     IN  /\ db' = newDb
         /\ Writes(w, newDb)
  /\ Mark(w, {"updated"})
  /\ NextRecord(w)
  /\ UNCHANGED <<nextId, now, faults, envVars, src, scrapeVars, transformVars,
                 records, existing, inserted, duplicates, results, errorLog,
                 callVars>>

\* updateOne rejects
UpdateOneFails(w) ==
  /\ pc[w] = "update"
  /\ faults < MaxFaults
  /\ faults' = faults + 1
  /\ CatchBlock(w, "StorageError")
  /\ Fails(w)
  /\ UNCHANGED <<storeVars, now, envVars, src, scrapeVars, transformVars, records,
                 existing, inserted, duplicates, results, callVars>>

\* does the store reject this insert?  (schema validation, unique index)
CreateRejected(coll, record) ==
  IF ~SchemaValid(record) THEN "ValidationError"
  ELSE IF DuplicateKey(coll, record) THEN "E11000"
  ELSE "ok"

\* create(record) resolves or is rejected by validation or the unique index
Create(w) ==
  /\ pc[w] = "create"
  /\ LET record  == records[w][idx[w]]
         verdict == CreateRejected(db, record)
     IN  IF verdict = "ok"
         THEN /\ db' = db \cup {NewDocument(record, nextId, now)}
              /\ nextId' = nextId + 1
              /\ inserted' = [inserted EXCEPT ![w] = @ + 1]
              /\ Writes(w, db \cup {NewDocument(record, nextId, now)})
              /\ Mark(w, {"inserted"})
              /\ NextRecord(w)
              /\ UNCHANGED errorLog
         ELSE /\ CatchBlock(w, verdict)
              /\ Fails(w)
              /\ UNCHANGED <<storeVars, inserted>>
  /\ UNCHANGED <<now, faults, envVars, src, scrapeVars, transformVars, records,
                 existing, duplicates, results, callVars>>

\* create rejects for a reason of the store
CreateFails(w) ==
  /\ pc[w] = "create"
  /\ faults < MaxFaults
  /\ faults' = faults + 1
  /\ CatchBlock(w, "StorageError")
  /\ Fails(w)
  /\ UNCHANGED <<storeVars, now, envVars, src, scrapeVars, transformVars, records,
                 existing, inserted, duplicates, results, callVars>>

\* insertRecords returns { inserted, duplicates }; runETLPipeline stores
\* them and goes on to the next source
InsertRecordsReturn(w) ==
  /\ pc[w] = "return"
  /\ results' = [results EXCEPT ![w][src[w]].inserted = inserted[w],
                                ![w][src[w]].duplicates = duplicates[w]]
  /\ settled' = IF clean[w] THEN [set |-> TRUE, batch |-> records[w]] ELSE settled
  /\ ToNextSource(w)
  /\ UNCHANGED <<storeVars, now, faults, envVars, validationLog, errorLog, callVars,
                 clean>>

\* DatabaseService.getStatistics resolves and the results are printed
GetStatistics(w) ==
  /\ pc[w] = "stats"
  /\ pc' = [pc EXCEPT ![w] = "done"]
  /\ UNCHANGED <<storeVars, now, faults, envVars, src, scrapeVars, transformVars,
                 records, idx, existing, inserted, duplicates, results, errorLog,
                 trail, callVars, clean, settled>>

\* time passes
Tick ==
  /\ now < MaxTicks
  /\ now' = now + 1
  /\ UNCHANGED <<storeVars, faults, envVars, pc, src, scrapeVars, transformVars,
                 records, idx, existing, inserted, duplicates, results, errorLog,
                 trail, callVars, clean, settled>>

Next ==
  \/ \E w \in Workers : Scrape(w)
  \/ \E w \in Workers : ScrapeFails(w)
  \/ \E w \in Workers : Transform(w)
  \/ \E w \in Workers : FindOne(w)
  \/ \E w \in Workers : FindOneFails(w)
  \/ \E w \in Workers : UpdateOne(w)
  \/ \E w \in Workers : UpdateOneFails(w)
  \/ \E w \in Workers : Create(w)
  \/ \E w \in Workers : CreateFails(w)
  \/ \E w \in Workers : InsertRecordsReturn(w)
  \/ \E w \in Workers : GetStatistics(w)
  \/ Tick

Spec == Init /\ [][Next]_vars

\* two workers and a store that fails no operation of its own accord
NextRace ==
  \/ \E w \in Workers : Scrape(w)
  \/ \E w \in Workers : ScrapeFails(w)
  \/ \E w \in Workers : Transform(w)
  \/ \E w \in Workers : FindOne(w)
  \/ \E w \in Workers : UpdateOne(w)
  \/ \E w \in Workers : Create(w)
  \/ \E w \in Workers : InsertRecordsReturn(w)
  \/ \E w \in Workers : GetStatistics(w)
  \/ Tick

SpecRace == InitRace /\ [][NextRace]_vars

(***************************************************************************)
(* One complete run of the pipeline over three live sources                *)
(***************************************************************************)
\* what the sites serve during the run: every source has a listing
RunPages(s) ==
  IF s = "Maharashtra" THEN {<<RowAshaMissing>>, <<RowAshaMissing, RowAshaFound>>}
  ELSE IF s = "Karnataka" THEN {<<ElemAsha>>, <<ElemAge200>>}
  ELSE {<<ZipUntraced>>}

InitRun ==
  /\ Fresh
  /\ tz = [w \in Workers |-> 330]
  /\ sites = [s \in Range(Sources) |-> RunPages(s)]
  /\ pc = [w \in Workers |-> IF w = "w1" THEN "scrape" ELSE "off"]
  /\ main = InPipeline
  /\ SideIdle

Stages == {"off", "scrape", "transform", "find", "update", "create", "return",
           "stats", "done"}

\* the awaited operation of worker w settles and w moves on: its position
\* (stage, source, record) changes.  Every step of Next other than Tick is
\* such a step, and one is possible at every stage before "done".
Settles(w) ==
  /\ pc[w] \notin {"off", "done"}
  /\ pc' \in [Workers -> Stages]
  /\ src' \in [Workers -> DOMAIN Sources]
  /\ idx' \in [Workers -> 1..(MaxRows + 1)]
  /\ <<pc'[w], src'[w], idx'[w]>> # <<pc[w], src[w], idx[w]>>

\* every awaited operation settles: fetch ends (it is bounded by its
\* attempts) and the store answers or fails
SpecRun == InitRun /\ [][Next]_vars /\ WF_<<pc, src, idx>>(Settles("w1"))

(***************************************************************************)
(* main() of the worker process w1: initialize, runETLPipeline, shutdown   *)
(***************************************************************************)
InitMain ==
  /\ Fresh
  /\ tz = [w \in Workers |-> 330]
  /\ sites = [s \in Range(Sources) |-> RunPages(s)]
  /\ pc = [w \in Workers |-> "off"]
  /\ main = [at |-> "initialize", shutdown |-> FALSE, exitCode |-> -1]
  /\ SideIdle

\* everything of the pipeline but the position of the workers
runVars ==
  <<storeVars, now, faults, tz, sites, sideVars, src, scrapeVars, transformVars,
    records, idx, existing, inserted, duplicates, results, errorLog, trail,
    callVars, clean, settled>>

\* worker.initialize(): mongoose.connect resolves; main goes on to
\* worker.runETLPipeline()
Initialize ==
  /\ main.at = "initialize"
  /\ main' = [main EXCEPT !.at = "pipeline"]
  /\ pc' = [pc EXCEPT !["w1"] = "scrape"]
  /\ UNCHANGED runVars

\* mongoose.connect rejects; initialize logs and rethrows into main's catch
InitializeFails ==
  /\ main.at = "initialize"
  /\ main' = [main EXCEPT !.at = "catch"]
  /\ UNCHANGED <<pc, runVars>>

\* DatabaseService.getStatistics rejects: runETLPipeline has no try around
\* it and throws into main's catch
GetStatisticsFails ==
  /\ main.at = "pipeline"
  /\ pc["w1"] = "stats"
  /\ faults < MaxFaults
  /\ faults' = faults + 1
  /\ pc' = [pc EXCEPT !["w1"] = "off"]
  /\ main' = [main EXCEPT !.at = "catch"]
  /\ UNCHANGED <<storeVars, now, tz, sites, sideVars, src, scrapeVars, transformVars,
                 records, idx, existing, inserted, duplicates, results, errorLog,
                 trail, callVars, clean, settled>>

\* worker.runETLPipeline() resolves; control enters the finally block
RunETLPipelineReturns ==
  /\ main.at = "pipeline"
  /\ pc["w1"] = "done"
  /\ main' = [main EXCEPT !.at = "finally"]
  /\ UNCHANGED <<pc, runVars>>

\* the catch block: console.error, then process.exit(1), which ends the
\* process at once; a pending finally block is not run
ProcessExit ==
  /\ main.at = "catch"
  /\ main' = [main EXCEPT !.at = "exited", !.exitCode = 1]
  /\ UNCHANGED <<pc, runVars>>

\* the finally block calls worker.shutdown()
Shutdown ==
  /\ main.at = "finally"
  /\ main' = [main EXCEPT !.at = "disconnect", !.shutdown = TRUE]
  /\ UNCHANGED <<pc, runVars>>

\* mongoose.disconnect resolves, or rejects and shutdown catches and logs;
\* main returns and the process ends with the event loop empty
Disconnect ==
  /\ main.at = "disconnect"
  /\ main' = [main EXCEPT !.at = "returned", !.exitCode = 0]
  /\ UNCHANGED <<pc, runVars>>

NextMain ==
  \/ Initialize
  \/ InitializeFails
  \/ \E w \in Workers : Scrape(w)
  \/ \E w \in Workers : ScrapeFails(w)
  \/ \E w \in Workers : Transform(w)
  \/ \E w \in Workers : FindOne(w)
  \/ \E w \in Workers : FindOneFails(w)
  \/ \E w \in Workers : UpdateOne(w)
  \/ \E w \in Workers : UpdateOneFails(w)
  \/ \E w \in Workers : Create(w)
  \/ \E w \in Workers : CreateFails(w)
  \/ \E w \in Workers : InsertRecordsReturn(w)
  \/ \E w \in Workers : GetStatistics(w)
  \/ GetStatisticsFails
  \/ RunETLPipelineReturns
  \/ ProcessExit
  \/ Shutdown
  \/ Disconnect
  \/ Tick

SpecMain == InitMain /\ [][NextMain]_vars

\* no worker process runs: the collection is empty and stays untouched by
\* the pipeline
WorkersOff ==
  /\ Fresh
  /\ tz = [w \in Workers |-> 330]
  /\ sites = [s \in Range(Sources) |-> QuietPages(s)]
  /\ pc = [w \in Workers |-> "off"]
  /\ main = NotStarted

(***************************************************************************)
(* validateExtractedData on its own                                        *)
(***************************************************************************)
\* a Date object whose time value is NaN ("Invalid Date")
InvalidDate == -777777

\* the objects handed to validateExtractedData: every combination of a
\* present or empty name, an age (a number, possibly NaN), a gender string,
\* a lastSeenDate (null, an Invalid Date, a real date) and a location
Candidates ==
  [name              : {<<>>, <<"A", "s", "h", "a">>},
   age               : {NaN, -1, 0, 29, 150, 200},
   gender            : {GenderMale, GenderFemale, GenderOther, "unknown"},
   lastSeenDate      : {NullDate, InvalidDate, NewDateLocal(2026, 1, 15, 330)},
   lastKnownLocation : {<<>>, <<"P", "u", "n", "e">>}]

InitValidate ==
  /\ WorkersOff
  /\ candidate \in Candidates
  /\ validation = NotValidated
  /\ DateIdle
  /\ FetchIdle
  /\ ServerIdle

\* validateExtractedData(candidate) returns { valid, errors }
Validate ==
  /\ ~validation.done
  /\ validation' = [done   |-> TRUE,
                    valid  |-> Len(validateExtractedData(candidate)) = 0,
                    errors |-> validateExtractedData(candidate)]
  /\ UNCHANGED <<workerVars, candidate, dateString, parsedDate, fetchVars, serverVars>>

NextValidate == Validate

SpecValidate == InitValidate /\ [][NextValidate]_vars

(***************************************************************************)
(* parseIndianDate on its own                                              *)
(***************************************************************************)
\* a number of at most two digits as the text a listing prints it with
TwoDigits(n) == <<Digits[(n \div 10) + 1], Digits[(n % 10) + 1]>>

\* the texts handed to parseIndianDate: day, month and year joined with "/"
\* or "-", over days and months inside and outside the calendar
DateStrings ==
  {TwoDigits(d) \o <<sep>> \o TwoDigits(m) \o <<sep, "2", "0">> \o TwoDigits(y) :
     d \in {0, 1, 15, 28, 29, 30, 31, 32},
     m \in {0, 1, 2, 4, 12, 13},
     sep \in {"/", "-"},
     y \in {24, 26}}

InitDates ==
  /\ WorkersOff
  /\ CandidateIdle
  /\ FetchIdle
  /\ ServerIdle
  /\ dateString \in DateStrings
  /\ parsedDate = NotParsed

\* parseIndianDate(dateString) returns, in the worker's zone
ParseDate ==
  /\ ~parsedDate.done
  /\ parsedDate' = [done |-> TRUE, date |-> parseIndianDate(dateString, 330)]
  /\ UNCHANGED <<workerVars, candidate, validation, dateString, fetchVars, serverVars>>

NextDates == ParseDate

SpecDates == InitDates /\ [][NextDates]_vars

(***************************************************************************)
(* HttpClient.fetch on its own                                             *)
(***************************************************************************)
\* SCRAPER_CONFIG
TIMEOUT_MS == 30000

RETRY_ATTEMPTS == 3

RETRY_DELAY_MS == 5000

\* what one axios.get may end in: a response (axios resolves for the 2xx
\* statuses), or a rejection for a status outside 2xx, a timeout or a
\* network error; each with the message of the error it leads to in fetch
GetOutcomes ==
  {[kind |-> "response", status |-> 200, data |-> "<html>page</html>", message |-> "null"],
   [kind |-> "response", status |-> 200, data |-> "", message |-> "null"],
   [kind |-> "response", status |-> 204, data |-> "", message |-> "HTTP 204: No Content"],
   [kind |-> "rejected", status |-> 503, data |-> "",
    message |-> "Request failed with status code 503"],
   [kind |-> "rejected", status |-> 0, data |-> "",
    message |-> "timeout of 30000ms exceeded"],
   [kind |-> "rejected", status |-> 0, data |-> "", message |-> "getaddrinfo ENOTFOUND"]}

\* a loop that never gives up
LoopForever(a) == TRUE

\* the condition of the for loop
LoopContinues(a) == a < RETRY_ATTEMPTS

\* the condition under which the catch block sleeps
RetryFollows(a) == a < RETRY_ATTEMPTS - 1

\* a delay that does not grow with the attempt
RetryDelayFixed(a) == RETRY_DELAY_MS

\* the delay before the next attempt
RetryDelay(a) == RETRY_DELAY_MS * (a + 1)

\* the ScraperError thrown after the loop
FetchFailed(url, message) ==
  [kind      |-> "thrown",
   name      |-> "ScraperError",
   code      |-> "FETCH_FAILED",
   message   |-> <<"Failed to fetch after", RETRY_ATTEMPTS, "attempts:", message>>,
   sourceUrl |-> url]

\* fetch(url) is called and reaches the loop
InitFetch ==
  /\ WorkersOff
  /\ ValidatorIdle
  /\ fetchUrl \in {MaharashtraURL, KarnatakaURL, DelhiURL}
  /\ fetchPc = "loop"
  /\ attempt = 0
  /\ lastError = "null"
  /\ requests = <<>>
  /\ slept = <<>>
  /\ fetchResult = NoFetchResult
  /\ ServerIdle

\* the loop test: another axios.get is issued, or the loop is left and the
\* ScraperError FETCH_FAILED is thrown
LoopTest ==
  /\ fetchPc = "loop"
  /\ IF LoopContinues(attempt)
     THEN /\ fetchPc' = "get"
          /\ fetchResult' = fetchResult
     ELSE /\ fetchPc' = "done"
          /\ fetchResult' = FetchFailed(fetchUrl, lastError)
  /\ UNCHANGED <<workerVars, validateVars, serverVars, fetchUrl, attempt, lastError,
                 requests, slept>>

\* axios.get settles: status 200 returns the body; anything else lands in
\* the catch block, which either starts the sleep or ends the iteration
AxiosGet ==
  /\ fetchPc = "get"
  /\ \E o \in GetOutcomes :
       /\ requests' = Append(requests, o)
       /\ IF o.kind = "response" /\ o.status = 200
          THEN /\ fetchResult' = [kind |-> "returned", data |-> o.data]
               /\ fetchPc' = "done"
               /\ UNCHANGED <<lastError, attempt>>
          ELSE /\ lastError' = o.message
               /\ fetchResult' = fetchResult
               /\ IF RetryFollows(attempt)
                  THEN /\ fetchPc' = "sleep"
                       /\ attempt' = attempt
                  ELSE /\ fetchPc' = "loop"
                       /\ attempt' = attempt + 1
  /\ UNCHANGED <<workerVars, validateVars, serverVars, fetchUrl, slept>>

\* the timer of the catch block fires: the iteration ends
Sleep ==
  /\ fetchPc = "sleep"
  /\ slept' = Append(slept, RetryDelay(attempt))
  /\ attempt' = attempt + 1
  /\ fetchPc' = "loop"
  /\ UNCHANGED <<workerVars, validateVars, serverVars, fetchUrl, lastError, requests,
                 fetchResult>>

NextFetch == LoopTest \/ AxiosGet \/ Sleep

\* every axios.get settles (it has a timeout) and every timer fires
SpecFetch == InitFetch /\ [][NextFetch]_vars /\ WF_vars(NextFetch)

(***************************************************************************)
(* The API server: the aggregation routes and the by-id route behind the   *)
(* cache middleware, reading the collection the worker writes              *)
(***************************************************************************)
\* numbers that are not integers are kept as exact fractions num/den; a
\* den of 0 marks the result of a division by zero
divide(a, b) == [num |-> a, den |-> b]

multiply(x, k) == [num |-> x.num * k, den |-> x.den]

RECURSIVE Pow10(_)
Pow10(n) == IF n = 0 THEN 1 ELSE 10 * Pow10(n - 1)

\* $round: [x, places], to the nearest multiple of 10^-places, ties to even
round(x, places) ==
  LET q   == x.num * Pow10(places)
      fl  == q \div x.den
      rem == q % x.den
      up  == 2 * rem > x.den \/ (2 * rem = x.den /\ fl % 2 = 1)
  IN  [num |-> IF up THEN fl + 1 ELSE fl, den |-> Pow10(places)]

\* Number.prototype.toFixed(digits): the decimal with that many digits
\* nearest to x, the larger one on a tie; kept as the fraction it denotes
toFixed(x, digits) ==
  LET q   == x.num * Pow10(digits)
      fl  == q \div x.den
      rem == q % x.den
  IN  [num |-> IF 2 * rem >= x.den THEN fl + 1 ELSE fl, den |-> Pow10(digits)]

RECURSIVE SumAge(_)
SumAge(docs) ==
  IF docs = {} THEN 0
  ELSE LET d == CHOOSE e \in docs : TRUE IN d.age + SumAge(docs \ {d})

\* $avg: '$age' over a non-empty group
AvgAge(docs) == divide(SumAge(docs), Cardinality(docs))

\* $sum of $cond [$eq [$status, s], 1, 0]
CountStatus(docs, s) == Cardinality({d \in docs : d.status = s})

\* hotspots, stage 3: riskScore without the 1 added to the divisor
riskScoreUndamped(missingCount, foundCount) ==
  multiply(divide(missingCount, missingCount + foundCount), 100)

\* hotspots, stage 3: riskScore
riskScore(missingCount, foundCount) ==
  multiply(divide(missingCount, missingCount + foundCount + 1), 100)

\* hotspots, stages 1 to 3: the documents matched (missing, last seen in the
\* 90 days before `time`), grouped by sourceState and projected
HotspotGroups(coll, time) ==
  LET matched == {d \in coll : /\ d.status = StatusMissing
                               /\ d.lastSeenDate >= time - 90 * MinutesPerDay}
  IN  {LET g == {d \in matched : d.sourceState = st}
       IN  [state        |-> st,
            missingCount |-> Cardinality(g),
            foundCount   |-> CountStatus(g, StatusFound),
            averageAge   |-> round(AvgAge(g), 1),
            riskScore    |-> riskScore(Cardinality(g), CountStatus(g, StatusFound))]
       : st \in {d.sourceState : d \in matched}}

\* hotspots, stages 4 and 5 with the sort direction reversed
HotspotsDataAscending(coll, time) ==
  LET groups == HotspotGroups(coll, time)
      n      == Cardinality(groups)
  IN  {SubSeq(order, 1, IF n < 20 THEN n ELSE 20) :
         order \in {o \in [1..n -> groups] :
                      /\ \A i, j \in 1..n : i # j => o[i] # o[j]
                      /\ \A i, j \in 1..n :
                           i < j => o[i].missingCount <= o[j].missingCount}}

\* hotspots, stages 4 and 5: any order by descending missingCount (the order
\* of equal counts is the store's choice), cut to the first 20
HotspotsData(coll, time) ==
  LET groups == HotspotGroups(coll, time)
      n      == Cardinality(groups)
  IN  {SubSeq(order, 1, IF n < 20 THEN n ELSE 20) :
         order \in {o \in [1..n -> groups] :
                      /\ \A i, j \in 1..n : i # j => o[i] # o[j]
                      /\ \A i, j \in 1..n :
                           i < j => o[i].missingCount >= o[j].missingCount}}

\* trends, $project: resolutionRate
trendResolutionRate(missingCount, foundCount) ==
  round(multiply(divide(foundCount, missingCount + foundCount + 1), 100), 2)

\* $year and $month of a date (in UTC)
YearMonth(t) ==
  LET ymd == CivilFromDays(t \div MinutesPerDay) IN <<ymd[1], ymd[2]>>

\* trends, $match, $group and $project: the documents last seen in the 365
\* days before `time`, grouped by year and month
TrendGroups(coll, time) ==
  LET matched == {d \in coll : d.lastSeenDate >= time - 365 * MinutesPerDay}
  IN  {LET g == {d \in matched : YearMonth(d.lastSeenDate) = ym}
       IN  [year           |-> ym[1],
            month          |-> ym[2],
            missingCount   |-> CountStatus(g, StatusMissing),
            foundCount     |-> CountStatus(g, StatusFound),
            totalCount     |-> Cardinality(g),
            avgAge         |-> round(AvgAge(g), 1),
            resolutionRate |-> trendResolutionRate(CountStatus(g, StatusMissing),
                                                   CountStatus(g, StatusFound))]
       : ym \in {YearMonth(d.lastSeenDate) : d \in matched}}

\* trends, $sort: by year, then month, ascending
TrendsData(coll, time) ==
  LET groups == TrendGroups(coll, time)
      n      == Cardinality(groups)
  IN  CHOOSE o \in [1..n -> groups] :
        \A i, j \in 1..n :
          i < j => \/ o[i].year < o[j].year
                   \/ (o[i].year = o[j].year /\ o[i].month < o[j].month)

\* statistics: resolutionRate with the divisor of the trends view
statisticsRateDamped(missingCount, foundCount) ==
  toFixed(multiply(divide(foundCount, missingCount + foundCount + 1), 100), 2)

\* statistics: totals.resolutionRate
statisticsRate(missingCount, foundCount) ==
  toFixed(multiply(divide(foundCount, missingCount + foundCount), 100), 2)

\* statistics: the totals facet ($group with _id null yields one group for
\* a non-empty collection and none for an empty one) and the totals of the
\* response built from it
StatisticsTotals(coll) ==
  [total          |-> Cardinality(coll),
   missing        |-> CountStatus(coll, StatusMissing),
   found          |-> CountStatus(coll, StatusFound),
   resolutionRate |-> statisticsRate(CountStatus(coll, StatusMissing),
                                     CountStatus(coll, StatusFound)),
   averageAge     |-> toFixed(AvgAge(coll), 1)]

\* the three aggregation routes
Views == {"hotspots", "trends", "statistics"}

\* the id asked for on the by-id route (a well-formed ObjectId, the _id of
\* the first document the store creates)
RequestIds == {1}

\* `${req.baseUrl}${req.url}` of a request: the route and, on the by-id
\* route, the id of the path
Key(route, id) == [route |-> route, id |-> id]

Keys == {Key(v, 0) : v \in Views} \cup {Key("byId", i) : i \in RequestIds}

\* the argument of cacheMiddleware on each route
durationSeconds(route) ==
  IF route = "hotspots" THEN 3600
  ELSE IF route \in {"trends", "statistics"} THEN 1800
  ELSE IF route \in {"list", "nearby"} THEN 300
  ELSE 600

\* milliseconds on the clock of the model
Minutes(ms) == ms \div 60000

\* the keys of the cached routes: the three views, the by-id route, the
\* list route without query parameters and the nearby route asked without
\* coordinates (its parameters fail GeoQuerySchema)
CacheKeys == Keys \cup {Key("list", 0), Key("nearby", 0)}

\* a cache test that serves an entry up to and including its expiry instant
CacheValidInclusive(entry, time) == entry.expiresAt >= time

\* a cache entry that never expires
CacheValidForever(entry, time) == TRUE

\* cacheMiddleware: the test for returning the cached response
CacheValid(entry, time) == entry.expiresAt > time

\* errorHandler, default branch
InternalServerError(time) ==
  [status |-> 500,
   body   |-> [success |-> FALSE, error |-> "Internal server error",
               timestamp |-> time, data |-> "null"]]

\* errorHandler, ZodError branch
ValidationError(time, paths) ==
  [status |-> 400,
   body   |-> [success |-> FALSE, error |-> "Validation error",
               timestamp |-> time, data |-> [issues |-> paths]]]

\* the list route without query parameters: find({}) sorted by lastSeenDate
\* descending (the order of equal dates is the store's choice), limit 20,
\* skip 0
ListResults(coll) ==
  LET n == Cardinality(coll)
  IN  {SubSeq(order, 1, IF n < 20 THEN n ELSE 20) :
         order \in {o \in [1..n -> coll] :
                      /\ \A i, j \in 1..n : i # j => o[i] # o[j]
                      /\ \A i, j \in 1..n :
                           i < j => o[i].lastSeenDate >= o[j].lastSeenDate}}

\* what the route handler of `key` passes to res.status(...).json(...) when
\* it runs on the collection coll at the instant time
Handler(key, coll, time) ==
  IF key.route = "hotspots"
  THEN {[status |-> 200,
         body   |-> [success   |-> TRUE,
                     data      |-> [hotspots      |-> h,
                                    totalHotspots |-> Len(h),
                                    generatedAt   |-> time],
                     timestamp |-> time]] : h \in HotspotsData(coll, time)}
  ELSE IF key.route = "trends"
  THEN {[status |-> 200,
         body   |-> [success   |-> TRUE,
                     data      |-> [trends    |-> TrendsData(coll, time),
                                    period    |-> "Last 12 months",
                                    timestamp |-> time],
                     timestamp |-> time]]}
  ELSE IF key.route = "statistics"
  THEN IF coll = {}
       THEN {InternalServerError(time)}
       ELSE {[status |-> 200,
              body   |-> [success   |-> TRUE,
                          data      |-> [totals |-> StatisticsTotals(coll)],
                          timestamp |-> time]]}
  ELSE IF key.route = "list"
  THEN {[status |-> 200,
         body   |-> [success   |-> TRUE,
                     data      |-> [results    |-> r,
                                    pagination |-> [limit  |-> 20,
                                                    offset |-> 0,
                                                    total  |-> Cardinality(coll),
                                                    pages  |-> (Cardinality(coll) + 19) \div 20]],
                     timestamp |-> time]] : r \in ListResults(coll)}
  ELSE IF key.route = "nearby"
  THEN {ValidationError(time, <<"longitude", "latitude">>)}
  ELSE IF \E d \in coll : d.id = key.id
       THEN {[status |-> 200,
              body   |-> [success   |-> TRUE,
                          data      |-> CHOOSE d \in coll : d.id = key.id,
                          timestamp |-> time]]}
       ELSE {[status |-> 404,
              body   |-> [success   |-> FALSE,
                          error     |-> "Missing person not found",
                          timestamp |-> time]]}

\* the records the worker hands to insertRecords in the runs the server
\* lives through: the valid records of three listed rows
Arrivals ==
  LET outcomes == MaharashtraRow(RowAshaMissing, 330)
                    \cup MaharashtraRow(RowAshaFound, 330)
                    \cup KarnatakaRow(ElemAsha, 330)
  IN  {o[1] : o \in {x \in outcomes : x # <<>> /\ validateExtractedData(x[1]) = <<>>}}

\* the instants at which the server is started: two weeks, three and a
\* half months and more than a year after the listed disappearances
Boots ==
  {NewDateLocal(2026, 2, 1, 0), NewDateLocal(2026, 5, 1, 0),
   NewDateLocal(2027, 2, 1, 0)}

\* minutes the server is followed for
MaxUptime == 60

\* requests the server is followed for
MaxServed == 2

pipelineVars ==
  <<now, faults, tz, sites, pc, src, page, origin, scraped, valid, invalid,
    records, idx, existing, inserted, duplicates, results, errorLog,
    validationLog, logBase, trail, callDb, clean, rerun, settled, main>>

\* the server is started on the collection, the worker not running
InitServer ==
  /\ WorkersOff
  /\ ValidatorIdle
  /\ FetchIdle
  /\ cache = <<>>
  /\ clock \in Boots
  /\ served = 0
  /\ reply = NoReply

\* a GET request with the key `key` passes cacheMiddleware: an entry that
\* is still valid is sent with res.json (status 200); otherwise the handler
\* runs and the overridden res.json stores what it sends
Get(key) ==
  /\ served < MaxServed
  /\ served' = served + 1
  /\ IF key \in DOMAIN cache /\ CacheValid(cache[key], clock)
     THEN /\ reply' = [key |-> key, status |-> 200, body |-> cache[key].data,
                       from |-> "cache"]
          /\ cache' = cache
     ELSE \E out \in Handler(key, db, clock) :
            /\ reply' = [key |-> key, status |-> out.status, body |-> out.body,
                         from |-> IF key \in DOMAIN cache THEN "expired" ELSE "handler"]
            /\ cache' = [k \in DOMAIN cache \cup {key} |->
                           IF k = key
                           THEN [data      |-> out.body,
                                 expiresAt |-> clock + Minutes(durationSeconds(key.route) * 1000)]
                           ELSE cache[k]]
  /\ UNCHANGED <<storeVars, pipelineVars, validateVars, fetchVars, clock>>

\* insertRecords completes for one record: the document with its dataHash
\* gets the record's status, or the record is created
Upsert(record) ==
  /\ LET hits == findOne(db, record.dataHash)
     IN  IF hits # {}
         THEN LET found == CHOOSE d \in hits : \A e \in hits : d.id <= e.id
              IN  /\ record.status # found.status
                  /\ db' = updateOne(db, found.id, UpdateDocument(record, now))
                  /\ nextId' = nextId
         ELSE /\ CreateRejected(db, record) = "ok"
              /\ db' = db \cup {NewDocument(record, nextId, now)}
              /\ nextId' = nextId + 1
  /\ UNCHANGED <<pipelineVars, validateVars, fetchVars, serverVars>>

\* time passes on the server
Elapse(d) ==
  /\ \E b \in Boots : clock >= b /\ clock + d <= b + MaxUptime
  /\ clock' = clock + d
  /\ UNCHANGED <<storeVars, pipelineVars, validateVars, fetchVars, cache, served, reply>>

NextServer ==
  \/ \E key \in Keys : Get(key)
  \/ \E record \in Arrivals : Upsert(record)
  \/ \E d \in {30} : Elapse(d)

SpecServer == InitServer /\ [][NextServer]_vars

(***************************************************************************)
(* The views over a collection the worker has filled                       *)
(***************************************************************************)
\* the valid records of the rows listed by the three sources: one person
\* listed by Maharashtra as missing, as found and with an ISO date, by
\* Karnataka, and by ZIPNET for Haryana and for Delhi
Listed ==
  LET outcomes == MaharashtraRow(RowAshaMissing, 330)
                    \cup MaharashtraRow(RowAshaFound, 330)
                    \cup MaharashtraRow(RowAshaIso, 330)
                    \cup KarnatakaRow(ElemAsha, 330)
                    \cup DelhiRow(ZipPending, 330)
                    \cup DelhiRow(ZipUntraced, 330)
  IN  {o[1] : o \in {x \in outcomes : x # <<>> /\ validateExtractedData(x[1]) = <<>>}}

\* insertRecords run to its end on the records of batch, one after the
\* other, starting from the collection coll and the next _id id
RECURSIVE StoreAll(_, _, _)
StoreAll(coll, id, batch) ==
  IF batch = {} THEN [db |-> coll, nextId |-> id]
  ELSE LET record == CHOOSE x \in batch : TRUE
           rest   == batch \ {record}
           hits   == findOne(coll, record.dataHash)
       IN  IF hits # {}
           THEN LET found == CHOOSE d \in hits : \A e \in hits : d.id <= e.id
                IN  IF record.status # found.status
                    THEN StoreAll(updateOne(coll, found.id, UpdateDocument(record, now)),
                                  id, rest)
                    ELSE StoreAll(coll, id, rest)
           ELSE IF CreateRejected(coll, record) = "ok"
                THEN StoreAll(coll \cup {NewDocument(record, id, now)}, id + 1, rest)
                ELSE StoreAll(coll, id, rest)

\* the worker's run over a batch of listed records completes before the
\* server is asked anything
Ingest(batch) ==
  /\ db = {}
  /\ served = 0
  /\ db' = StoreAll(db, nextId, batch).db
  /\ nextId' = StoreAll(db, nextId, batch).nextId
  /\ UNCHANGED <<pipelineVars, validateVars, fetchVars, serverVars>>

NextViews ==
  \/ \E batch \in SUBSET Listed \ {{}} : Ingest(batch)
  \/ \E key \in Keys : Get(key)

SpecViews == InitServer /\ [][NextViews]_vars

(***************************************************************************)
(* The cache middleware under requests of every cached route               *)
(***************************************************************************)
\* the server is started two weeks after the listed disappearances
InitCache ==
  /\ InitServer
  /\ clock = NewDateLocal(2026, 2, 1, 0)

\* a request with another method than GET (POST, PUT, DELETE ...) on the
\* path of `key`: the routes are registered with router.get, so neither
\* cacheMiddleware nor a handler runs and the 404 handler answers
NotGet(key) ==
  /\ served < MaxServed
  /\ served' = served + 1
  /\ reply' = [key    |-> key,
               status |-> 404,
               body   |-> [success |-> FALSE, error |-> "Not found", timestamp |-> clock],
               from   |-> "notfound"]
  /\ UNCHANGED <<storeVars, pipelineVars, validateVars, fetchVars, cache, clock>>

\* the instants the server is looked at, in minutes after its start: each
\* cache duration (5, 10, 30, 60 minutes) is reached exactly, and there is
\* an instant before it
Instants == {5, 10, 30, 60}

\* time passes on the server up to the next instant looked at
ElapseTo(t) ==
  /\ t \in Instants
  /\ t <= MaxUptime
  /\ clock < NewDateLocal(2026, 2, 1, 0) + t
  /\ clock' = NewDateLocal(2026, 2, 1, 0) + t
  /\ UNCHANGED <<storeVars, pipelineVars, validateVars, fetchVars, cache, served, reply>>

NextCache ==
  \/ \E key \in CacheKeys : Get(key)
  \/ \E key \in CacheKeys : NotGet(key)
  \/ \E batch \in SUBSET Arrivals \ {{}} : Ingest(batch)
  \/ \E t \in Instants : ElapseTo(t)

SpecCache == InitCache /\ [][NextCache]_vars

(***************************************************************************)
(* Properties                                                              *)
(***************************************************************************)
\* the records of the current call that carry a tag in the trail
Tagged(w, tag) == {i \in DOMAIN trail[w] : tag \in trail[w][i]}

\* the entries the current call of insertRecords appended to the error log
LoggedCount(w) == Len(errorLog[w]) - logBase[w]

\* C1: idempotence of re-ingestion.  When insertRecords is run again with
\* the batch the collection results from (no failure, no other writer), it
\* returns inserted = 0 and duplicates = batch length and leaves the
\* collection exactly as it found it.
C1_ReingestionIdempotent ==
  \A w \in Workers :
    (pc[w] = "return" /\ rerun[w] /\ clean[w]) =>
      /\ inserted[w] = 0
      /\ duplicates[w] = Len(records[w])
      /\ db = callDb[w]

\* C2: no two stored documents share a dataHash, in every reachable state,
\* also when two runs interleave their findOne and create on the same hash.
C2_UniqueDataHash ==
  \A d \in db : \A e \in db : d.dataHash = e.dataHash => d = e

\* C2 witness: two runs raced on one hash and the index rejected the second
\* create.
C2_RaceRejected ==
  /\ \E w \in Workers : \E k \in DOMAIN errorLog[w] : errorLog[w][k].error = "E11000"
  /\ db # {}

\* C3: a successful status update of a stored document changes only its
\* status (to the incoming status) and its updatedAt (to the current time,
\* never earlier than before); every other field of every document keeps
\* its value and the set of documents stays the same.
C3_StatusUpdateFrame ==
  [][\A w \in Workers :
       (pc[w] = "update" /\ "updated" \in trail'[w][idx[w]]) =>
         /\ Cardinality(db') = Cardinality(db)
         /\ \A d \in db :
              \E e \in db' :
                /\ e.id = d.id
                /\ \A f \in (DOMAIN d) \ {"status", "updatedAt"} : e[f] = d[f]
                /\ IF d.id = existing[w].id
                   THEN /\ existing[w].status # records[w][idx[w]].status
                        /\ e.status = records[w][idx[w]].status
                        /\ e.updatedAt = now
                        /\ e.updatedAt >= d.updatedAt
                   ELSE e = d]_vars

\* C3 witness: a record was met whose hash was stored with another status
\* and which carried another age and location; the stored document now has
\* the incoming status and still its own age and location.
C3_UpdatedKeepsFields ==
  \E w \in Workers : \E i \in DOMAIN trail[w] :
    /\ "updated" \in trail[w][i]
    /\ \E d \in db :
         /\ d.dataHash = records[w][i].dataHash
         /\ d.status = records[w][i].status
         /\ d.age # records[w][i].age
         /\ d.lastKnownLocation # records[w][i].lastKnownLocation
         /\ d.updatedAt > d.createdAt

\* C4: a stored document with status found is never left with status
\* missing by a step of the pipeline.
C4_NeverFoundToMissing ==
  [][\A d \in db : d.status = StatusFound =>
       \A e \in db' : e.id = d.id => e.status # StatusMissing]_vars

\* C5 as stated: when insertRecords returns, inserted + duplicates + logged
\* failures = number of records.
C5_AccountedExactlyOnce ==
  \A w \in Workers :
    pc[w] = "return" =>
      inserted[w] + duplicates[w] + LoggedCount(w) = Len(records[w])

\* C5 amended: when insertRecords returns, every record was counted in
\* inserted, counted in duplicates or logged as a failure; an inserted
\* record is in no other class; the records in two classes are those found
\* stored whose status update failed (counted as duplicates and logged), so
\* inserted + duplicates + logged = number of records + failed updates.
C5_AccountedAtLeastOnce ==
  \A w \in Workers :
    pc[w] = "return" =>
      /\ inserted[w] = Cardinality(Tagged(w, "inserted"))
      /\ duplicates[w] = Cardinality(Tagged(w, "duplicate"))
      /\ LoggedCount(w) = Cardinality(Tagged(w, "logged"))
      /\ \A i \in DOMAIN records[w] :
           /\ trail[w][i] \cap {"inserted", "duplicate", "logged"} # {}
           /\ "inserted" \in trail[w][i] =>
                trail[w][i] \cap {"duplicate", "logged"} = {}
           /\ {"duplicate", "logged"} \subseteq trail[w][i] =>
                /\ "StorageError" \in trail[w][i]
                /\ "updated" \notin trail[w][i]
      /\ inserted[w] + duplicates[w] + LoggedCount(w)
           = Len(records[w])
             + Cardinality(Tagged(w, "duplicate") \cap Tagged(w, "logged"))

\* C5 witness: insertRecords returns after the status update of a record
\* failed; the record is counted in duplicates and logged.
C5_FailedUpdateCountedTwice ==
  \E w \in Workers :
    /\ pc[w] = "return"
    /\ Tagged(w, "duplicate") \cap Tagged(w, "logged") # {}

\* C6: a create rejected by the unique index (E11000) counts the record as
\* a duplicate and logs no error.
C6_RaceCountedAsDuplicate ==
  \A w \in Workers :
    /\ \A i \in DOMAIN trail[w] :
         "E11000" \in trail[w][i] =>
           "duplicate" \in trail[w][i] /\ "logged" \notin trail[w][i]
    /\ \A k \in DOMAIN errorLog[w] : errorLog[w][k].error # "E11000"

\* C7: a failure on one record never aborts the batch.  When insertRecords
\* returns, the loop has passed every record, every record was looked up,
\* every record whose lookup succeeded was inserted, counted as duplicate
\* or logged, and every failed record has a log entry with its name and
\* dataHash.
C7_FailureDoesNotAbort ==
  \A w \in Workers :
    pc[w] = "return" =>
      /\ idx[w] = Len(records[w]) + 1
      /\ \A i \in DOMAIN records[w] :
           /\ "lookup" \in trail[w][i]
           /\ "logged" \in trail[w][i] =>
                \E k \in (logBase[w] + 1)..Len(errorLog[w]) :
                  /\ errorLog[w][k].context =
                       <<records[w][i].name, records[w][i].dataHash>>
                  /\ errorLog[w][k].error \in trail[w][i]
      /\ LoggedCount(w) = Cardinality(Tagged(w, "logged"))

\* C7 witness: insertRecords returns from a batch of two records whose
\* first record failed and whose second was looked up and then inserted or
\* counted as duplicate.
C7_LaterRecordProcessed ==
  \E w \in Workers :
    /\ pc[w] = "return"
    /\ Len(records[w]) = 2
    /\ "logged" \in trail[w][1]
    /\ "lookup" \in trail[w][2]
    /\ trail[w][2] \cap {"inserted", "duplicate"} # {}

\* C8: the hash depends on the name, the instant of lastSeenDate and the
\* sourceURL only: two stored documents that agree on the three have the
\* same hash, whatever the time zone of the process that computed it.
C8_HashOfTripleOnly ==
  \A d \in db : \A e \in db :
    (d.name = e.name /\ d.lastSeenDate = e.lastSeenDate /\ d.sourceURL = e.sourceURL)
      => d.dataHash = e.dataHash

\* the age a row states, as the scraper of source s reads it
StatedAge(s, row) ==
  IF s = "Delhi"
  THEN LET parts == [k \in DOMAIN split(row.alt, "|") |->
                       normalizeText(split(row.alt, "|")[k])]
       IN  IF row.alt # <<>> /\ Len(parts) > 1 /\ FirstDigitRun(parts[2]) # <<>>
           THEN parseInt(FirstDigitRun(parts[2]))
           ELSE 0
  ELSE parseInt(Cell(row, 2))

\* the date a row states, as the scraper of source s reads it
StatedDate(s, row, zone) ==
  IF s = "Delhi" THEN parseIndianDate(normalizeText(Cell(row.cells, 5)), zone)
  ELSE parseIndianDate(Cell(row, 4), zone)

AgeOutOfRange(s, row) ==
  ~isNaN(StatedAge(s, row)) /\ (StatedAge(s, row) < 0 \/ StatedAge(s, row) > 150)

DateUnparseable(s, row, zone) == StatedDate(s, row, zone) = NullDate

\* the records scrape() built from row r of the page
RecordsOfRow(w, r) == {scraped[w][k] : k \in {j \in DOMAIN scraped[w] : origin[w][j] = r}}

\* the record is in the invalid list given to ErrorLogger.logValidationErrors
InReport(w, rec) ==
  /\ \E j \in DOMAIN invalid[w] : invalid[w][j].data = rec
  /\ validationLog[w] # <<>>
  /\ validationLog[w][Len(validationLog[w])].errors = invalid[w]

Occurrences(q, x) == Cardinality({k \in DOMAIN q : q[k] = x})

\* the candidates of the invalid list
InvalidData(w) == [j \in DOMAIN invalid[w] |-> invalid[w][j].data]

\* C10: transform puts every candidate in exactly one of valid and invalid,
\* so |valid| + |invalid| = |input|; every invalid entry carries its
\* candidate and a non-empty list of failed rules; insertRecords receives
\* the valid list and nothing else, so no candidate that fails a rule is
\* inserted.
C10_TransformPartitions ==
  \A w \in Workers :
    InCall(w) =>
      /\ Len(valid[w]) + Len(invalid[w]) = Len(scraped[w])
      /\ \A k \in DOMAIN scraped[w] :
           /\ Occurrences(valid[w], scraped[w][k])
                + Occurrences(InvalidData(w), scraped[w][k])
                = Occurrences(scraped[w], scraped[w][k])
           /\ ~(/\ scraped[w][k] \in Range(valid[w])
                /\ scraped[w][k] \in Range(InvalidData(w)))
      /\ \A j \in DOMAIN invalid[w] :
           /\ invalid[w][j].data \in Range(scraped[w])
           /\ invalid[w][j].errors # <<>>
           /\ Range(invalid[w][j].errors)
                \subseteq {ErrName, ErrAge, ErrGender, ErrDate, ErrLocation}
      /\ \A j \in DOMAIN valid[w] :
           /\ valid[w][j] \in Range(scraped[w])
           /\ ~(NumLt(valid[w][j].age, 0) \/ NumGt(valid[w][j].age, 150))
           /\ valid[w][j].name # <<>>
      /\ records[w] = valid[w]
      /\ \A i \in Tagged(w, "inserted") :
           records[w][i] \notin Range(InvalidData(w))

\* C10 witness: a page gave one candidate that passes and one that fails a
\* rule; the first was inserted, the second is in the invalid list only.
C10_ValidAndInvalid ==
  \E w \in Workers :
    /\ pc[w] = "return"
    /\ Len(valid[w]) = 1
    /\ Len(invalid[w]) = 1
    /\ Tagged(w, "inserted") = {1}
    /\ \A d \in db : d.dataHash # invalid[w][1].data.dataHash

\* the rules of the data model, one per field: age is an integer within
\* [0,150] (so not NaN), lastSeenDate is a date that names a real instant
RuleName(person) == person.name # <<>>

RuleAge(person) == ~isNaN(person.age) /\ person.age >= 0 /\ person.age <= 150

RuleGender(person) == person.gender \in Genders

RuleDate(person) == person.lastSeenDate \notin {NullDate, InvalidDate}

RuleLocation(person) == person.lastKnownLocation # <<>>

\* the messages of the rules the object breaks, in the order of the code
BrokenRules(person) ==
  (IF RuleName(person) THEN <<>> ELSE <<ErrName>>)
  \o (IF RuleAge(person) THEN <<>> ELSE <<ErrAge>>)
  \o (IF RuleGender(person) THEN <<>> ELSE <<ErrGender>>)
  \o (IF RuleDate(person) THEN <<>> ELSE <<ErrDate>>)
  \o (IF RuleLocation(person) THEN <<>> ELSE <<ErrLocation>>)

\* C11: validateExtractedData reports exactly one error per broken rule and
\* returns valid = true exactly when the name is non-empty, the age is an
\* integer within [0,150], the gender is male, female or other, the
\* lastSeenDate is a valid date and the location is non-empty; an age that
\* is not a number and an Invalid Date are rejected.
C11_ValidExactlyWhenRulesHold ==
  validation.done =>
    /\ validation.errors = BrokenRules(candidate)
    /\ validation.valid <=> (BrokenRules(candidate) = <<>>)

\* the axios.get outcome that lets fetch return
Succeeds(o) == o.kind = "response" /\ o.status = 200

\* C12: fetch ends after at most 3 requests.  It returns the body of the
\* first request answered with status 200 and issues none after it; when
\* all 3 requests fail it throws a ScraperError with the requested URL and
\* the message of the error of the last request; and it always ends.
C12_FetchEndsWithinThreeAttempts ==
  /\ [](/\ Len(requests) <= 3
        /\ \A k \in 1..(Len(requests) - 1) : ~Succeeds(requests[k])
        /\ fetchPc = "done" =>
             /\ requests # <<>>
             /\ IF Succeeds(requests[Len(requests)])
                THEN fetchResult = [kind |-> "returned",
                                    data |-> requests[Len(requests)].data]
                ELSE /\ Len(requests) = 3
                     /\ fetchResult.kind = "thrown"
                     /\ fetchResult.name = "ScraperError"
                     /\ fetchResult.sourceUrl = fetchUrl
                     /\ fetchResult.message[4] = requests[3].message)
  /\ <>(fetchPc = "done")

\* C12 witness: the third request ended in a status that is not 200 and
\* fetch threw.
C12_ThrownAfterThird ==
  /\ fetchPc = "done"
  /\ Len(requests) = 3
  /\ requests[3].kind = "response"
  /\ requests[3].status = 204
  /\ fetchResult.kind = "thrown"

\* the sourceURL of the records of a source
SourceURLOf(s) ==
  IF s = "Maharashtra" THEN MaharashtraURL
  ELSE IF s = "Karnataka" THEN KarnatakaURL
  ELSE DelhiURL

\* the sources of the run whose scrape has thrown so far
FailedSources(w) == {i \in DOMAIN Sources : results[w][i].error # "null"}

\* C13: a source whose scrape throws has its error recorded, and nothing of
\* it is transformed, inserted or updated in the run; whatever sources
\* fail, the run reaches the final statistics step, and by then every
\* source that did not fail was scraped and transformed and its valid
\* records were stored (or their storage failure was logged).
C13_SourceFailureIsolated ==
  /\ [](\A i \in FailedSources("w1") :
          /\ results["w1"][i].error = "FETCH_FAILED"
          /\ results["w1"][i].valid = 0
          /\ results["w1"][i].inserted = 0
          /\ results["w1"][i].duplicates = 0
          /\ \A d \in db : d.sourceURL # SourceURLOf(Sources[i])
          /\ \E k \in DOMAIN errorLog["w1"] :
               /\ errorLog["w1"][k].state = Sources[i]
               /\ errorLog["w1"][k].error = "FETCH_FAILED")
  /\ [](pc["w1"] = "stats" =>
          \A i \in (DOMAIN Sources) \ FailedSources("w1") :
            /\ results["w1"][i].scraped >= 1
            /\ results["w1"][i].valid + results["w1"][i].invalid
                 = results["w1"][i].scraped
            /\ results["w1"][i].valid >= 1 =>
                 \/ \E d \in db : d.sourceURL = SourceURLOf(Sources[i])
                 \/ \E k \in DOMAIN errorLog["w1"] :
                      errorLog["w1"][k].state = Sources[i])
  /\ <>(pc["w1"] = "stats")

\* C13 witness: the run is at the statistics step, the first source failed
\* and records of both later sources are stored.
C13_LaterSourcesStored ==
  /\ pc["w1"] = "stats"
  /\ FailedSources("w1") = {1}
  /\ \E d \in db : d.sourceURL = KarnatakaURL
  /\ \E d \in db : d.sourceURL = DelhiURL

\* the storage operations of record i of the current call are over
Completed(w, i) == trail[w][i] \cap {"inserted", "duplicate", "logged"} # {}

\* the hashes whose documents differ between two collections
ChangedHashes(old, new) ==
  {d.dataHash : d \in (old \ new) \cup (new \ old)}

\* C14: one run processes the sources one after another in the order
\* Maharashtra, Karnataka, Delhi: the next source is started only from the
\* failed scrape or the returned insertRecords of the one before it.
\* Inside insertRecords the records are taken one at a time in batch
\* order: while an operation for record i is outstanding, every earlier
\* record is finished and no operation was issued for a later one, and a
\* write touches the document of record i only.
C14_OneOperationAtATime ==
  /\ Sources = <<"Maharashtra", "Karnataka", "Delhi">>
  /\ [](pc["w1"] \in {"find", "update", "create"} =>
          /\ idx["w1"] \in DOMAIN records["w1"]
          /\ \A i \in DOMAIN records["w1"] :
               /\ i < idx["w1"] => Completed("w1", i)
               /\ i > idx["w1"] => trail["w1"][i] = {}
          /\ "inserted" \notin trail["w1"][idx["w1"]])
  /\ [][/\ src'["w1"] # src["w1"] =>
            /\ src'["w1"] = src["w1"] + 1
            /\ pc'["w1"] = "scrape"
            /\ pc["w1"] \in {"scrape", "return"}
            /\ pc["w1"] = "return" => \A i \in DOMAIN records["w1"] : Completed("w1", i)
        /\ (idx'["w1"] # idx["w1"] /\ pc["w1"] # "return") =>
            /\ idx'["w1"] = idx["w1"] + 1
            /\ pc["w1"] \in {"find", "update", "create"}
            /\ pc'["w1"] \in {"find", "return"}
            /\ trail'["w1"][idx["w1"]] \cap {"inserted", "duplicate", "logged"} # {}
        /\ db' # db =>
            /\ pc["w1"] \in {"update", "create"}
            /\ ChangedHashes(db, db') = {records["w1"][idx["w1"]].dataHash}]_vars

\* C14 witness: the third source is in insertRecords, at its first record,
\* after records of the first and of the second source were stored.
C14_ThirdAfterFirstTwo ==
  /\ src["w1"] = 3
  /\ pc["w1"] = "create"
  /\ results["w1"][1].inserted = 1
  /\ results["w1"][1].duplicates = 1
  /\ results["w1"][2].inserted = 1

\* C15: the pipeline only appends and updates: no step removes a stored
\* identity or a stored dataHash, and the number of stored documents never
\* decreases, whatever fails in the runs.
C15_AppendUpdateOnly ==
  [][/\ {d.id : d \in db} \subseteq {d.id : d \in db'}
     /\ {d.dataHash : d \in db} \subseteq {d.dataHash : d \in db'}
     /\ Cardinality(db') >= Cardinality(db)]_vars

\* C15 witness: two runs are over, one of which met a rejected create; two
\* documents are stored and one of them had its status updated.
C15_TwoRunsOver ==
  /\ \A w \in Workers : pc[w] = "done"
  /\ Cardinality(db) = 2
  /\ \E d \in db : d.status = StatusFound

\* the last step answered a request on `route`
Answered(route) == served' # served /\ reply'.key.route = route

\* two response bodies of a view carry the same figures (the instants they
\* were built at set aside)
SameFigures(route, a, b) ==
  /\ a.success = b.success
  /\ a.success =>
       IF route = "hotspots" THEN a.data.hotspots = b.data.hotspots
       ELSE IF route = "trends" THEN a.data.trends = b.data.trends
       ELSE a.data.totals = b.data.totals

\* response r carries what the handler computes from the collection coll
\* at time
ComputedFresh(r, coll, time) ==
  \E out \in Handler(r.key, coll, time) : SameFigures(r.key.route, out.body, r.body)

\* the cache duration of a route on the clock of the model
Duration(route) == Minutes(durationSeconds(route) * 1000)

\* C16 as stated: every hotspots, trends or statistics response is computed
\* from the collection as it is at the time of the request, so the first
\* request after a completed upsert reflects it.
C16_ViewsComputedFresh ==
  [][\A v \in Views : Answered(v) => ComputedFresh(reply', db, clock)]_vars

\* C16, amended: a view response is computed from the collection as it is at
\* the time of the request unless the same path and query was answered less
\* than the route's cache duration earlier; then that earlier body is sent
\* again.  A completed upsert is therefore reflected at the latest by the
\* first request made once the cache duration has elapsed.
C16_FreshUnlessCached ==
  [][\A v \in Views :
       Answered(v) =>
         LET key == reply'.key
         IN  IF key \in DOMAIN cache
                /\ clock - cache[key].data.timestamp < Duration(v)
             THEN /\ reply'.body = cache[key].data
                  /\ reply'.status = 200
             ELSE ComputedFresh(reply', db, clock)]_vars

\* C16 witness: a view was asked for again after its entry expired, and the
\* answer was computed from a collection that holds documents
C16_RecomputedAfterExpiry ==
  /\ reply.status = 200
  /\ reply.key.route \in Views
  /\ reply.from = "expired"
  /\ reply.body.timestamp = clock
  /\ db # {}

\* C17: a by-id request for an id without a stored record is answered with
\* status 404 and a body with success = false and no data, also when it is
\* repeated within the cache duration of the route.
C17_UnknownIdAlways404 ==
  [][(Answered("byId") /\ ~\E d \in db : d.id = reply'.key.id) =>
       /\ reply'.status = 404
       /\ reply'.body.success = FALSE
       /\ "data" \notin DOMAIN reply'.body]_vars

\* the counts a group is checked for beyond those the collection reaches
MaxCount == 12

\* x is the fraction p/q rounded to a multiple of 1/100
RoundedToHundredths(x, p, q) ==
  /\ x.den = 100
  /\ LET diff == x.num * q - 100 * p IN 2 * (IF diff < 0 THEN -diff ELSE diff) <= q

\* riskScore for a group of m missing and f found: m / (m + f + 1) * 100,
\* computed without a division by zero and inside [0, 100)
RiskScoreOk(x, m, f) ==
  /\ x.den > 0
  /\ x.num * (m + f + 1) = 100 * m * x.den
  /\ x.num >= 0
  /\ x.num < 100 * x.den

\* resolutionRate of a trend group: f / (m + f + 1) * 100 rounded to two
\* decimals, inside [0, 100]
TrendRateOk(x, m, f) ==
  /\ RoundedToHundredths(x, 100 * f, m + f + 1)
  /\ x.num >= 0
  /\ x.num <= 100 * x.den

\* the two formulas on every pair of counts up to MaxCount
ScoreFormulasOk ==
  \A m, f \in 0..MaxCount :
    /\ RiskScoreOk(riskScore(m, f), m, f)
    /\ TrendRateOk(trendResolutionRate(m, f), m, f)

TotalsOk(t) ==
  /\ t.total = t.missing + t.found
  /\ RoundedToHundredths(t.resolutionRate, 100 * t.found, t.missing + t.found)

\* the rate of the totals on every pair of counts up to MaxCount, and the
\* stated example
StatisticsRateOk ==
  /\ \A m, f \in 0..MaxCount :
       m + f > 0 => RoundedToHundredths(statisticsRate(m, f), 100 * f, m + f)
  /\ statisticsRate(10, 2) = [num |-> 1667, den |-> 100]

\* C19: for a collection with at least one document the statistics handler
\* answers with totals, and the totals of every statistics response satisfy
\* total = missing + found and resolutionRate = found / (missing + found) *
\* 100 rounded to two decimals; 10 missing and 2 found give 16.67.
C19_StatisticsTotals ==
  /\ [](/\ (reply.status # 0 /\ reply.key.route = "statistics" /\ reply.body.success)
             => TotalsOk(reply.body.data.totals)
        /\ StatisticsRateOk)
  /\ [][(Answered("statistics") /\ reply'.from # "cache" /\ db # {}) =>
          /\ reply'.status = 200
          /\ reply'.body.success
          /\ reply'.body.data.totals.total = Cardinality(db)
          /\ reply'.body.data.totals.missing = CountStatus(db, StatusMissing)
          /\ reply'.body.data.totals.found = CountStatus(db, StatusFound)]_vars

\* C19 witness: a statistics response for one missing and one found person,
\* resolutionRate 50.00
C19_HalfResolved ==
  /\ reply.status = 200
  /\ reply.key.route = "statistics"
  /\ reply.body.success
  /\ reply.body.data.totals.missing = 1
  /\ reply.body.data.totals.found = 1
  /\ reply.body.data.totals.resolutionRate = [num |-> 5000, den |-> 100]

\* the tracing status a Delhi ZIPNET row states, in lower case
StatedTracing(row) == toLowerCase(normalizeText(Cell(row.cells, 8)))

\* C20: the Delhi ZIPNET extractor gives status found to a row whose tracing
\* status is "Traced" or "Found" in any letter case, and status missing to
\* a row with "Untraced" or any other text.
C20_DelhiStatusAsDocumented ==
  \A w \in Workers :
    (pc[w] # "off" /\ Sources[src[w]] = "Delhi") =>
      \A r \in DOMAIN page[w] :
        \A rec \in RecordsOfRow(w, r) :
          rec.status = IF StatedTracing(page[w][r]) \in
                            {<<"t", "r", "a", "c", "e", "d">>, <<"f", "o", "u", "n", "d">>}
                       THEN StatusFound
                       ELSE StatusMissing

\* the approximate center of each jurisdiction of the ZIPNET State column,
\* as <<longitude, latitude>> in 1/10000 degree
JurisdictionCenters ==
  <<<<<<"D", "E", "L", "H", "I">>, <<771025, 287041>>>>,
    <<<<"H", "A", "R", "Y", "A", "N", "A">>, <<770745, 290588>>>>,
    <<<<"R", "A", "J", "A", "S", "T", "H", "A", "N">>, <<742179, 270238>>>>,
    <<<<"U", "T", "T", "R", "A", "K", "H", "A", "N", "D">>, <<790193, 300668>>>>,
    <<<<"P", "U", "N", "J", "A", "B">>, <<753412, 311471>>>>,
    <<<<"C", "H", "A", "N", "D", "I", "G", "A", "R", "H">>, <<767794, 307333>>>>,
    <<<<"H", "I", "M", "A", "C", "H", "A", "L", " ", "P", "R", "A", "D", "E", "S", "H">>,
      <<771205, 317433>>>>,
    <<<<"J", "A", "M", "M", "U", " ", "&", " ", "K", "A", "S", "H", "M", "I", "R">>,
      <<747973, 340837>>>>>>

\* C21: every record scraped from a Delhi ZIPNET row of one of the covered
\* jurisdictions carries the center of its own sourceState as geolocation,
\* in <<longitude, latitude>> order.
C21_OwnStateCenterLonLat ==
  \A w \in Workers :
    (pc[w] # "off" /\ Sources[src[w]] = "Delhi") =>
      \A r \in DOMAIN page[w] :
        \A rec \in RecordsOfRow(w, r) :
          \A k \in DOMAIN JurisdictionCenters :
            toUpperCase(rec.sourceState) = JurisdictionCenters[k][1] =>
              rec.geolocation = JurisdictionCenters[k][2]

\* the requests of the call that failed so far
FailedRequests ==
  IF requests # <<>> /\ Succeeds(requests[Len(requests)])
  THEN Len(requests) - 1
  ELSE Len(requests)

RECURSIVE SumSeq(_)
SumSeq(q) == IF q = <<>> THEN 0 ELSE q[1] + SumSeq(Tail(q))

\* C22: the k-th sleep of a call of fetch lasts RETRY_DELAY_MS * k (5000 ms,
\* then 10000 ms); the call sleeps once after each of its first two failed
\* requests, before the next request, and not after a request answered with
\* 200 nor after the third failed request; it sleeps at most twice and at
\* most 15000 ms in total.
C22_LinearBackoff ==
  /\ Len(slept) <= 2
  /\ \A k \in DOMAIN slept : slept[k] = RETRY_DELAY_MS * k
  /\ Len(slept) >= 1 => slept[1] = 5000
  /\ Len(slept) >= 2 => slept[2] = 10000
  /\ SumSeq(slept) <= 15000
  /\ Len(slept) = IF fetchPc = "sleep" THEN FailedRequests - 1
                  ELSE IF FailedRequests <= 2 THEN FailedRequests ELSE 2

\* C22 witness: three requests failed, and the call threw after sleeping
\* 5000 ms and 10000 ms
C22_SleptTwice ==
  /\ fetchPc = "done"
  /\ fetchResult.kind = "thrown"
  /\ slept = <<5000, 10000>>

\* the filtered input set of the hotspots view: the documents of coll that
\* are missing and were last seen in the 90 days before time
HotspotInput(coll, time) ==
  {d \in coll : d.status = StatusMissing /\ d.lastSeenDate >= time - 90 * MinutesPerDay}

TimeToLive(route) ==
  IF route = "hotspots" THEN 60
  ELSE IF route \in {"trends", "statistics"} THEN 30
  ELSE IF route \in {"list", "nearby"} THEN 5
  ELSE 10

StatedNumbers(s) ==
  <<parseInt(SubSeq(s, 1, 2)), parseInt(SubSeq(s, 4, 5)), parseInt(SubSeq(s, 7, 10))>>

\* day d of month m of year y is a date of the calendar
RealDate(d, m, y) == m >= 1 /\ m <= 12 /\ d >= 1 /\ d <= DaysInMonth(y, m)

\* C25: for a text DD/MM/YYYY or DD-MM-YYYY parseIndianDate returns the
\* date whose day, month and year are the three numbers of the text, or
\* null when they name no date of the calendar.
C25_NoImpossibleDateAccepted ==
  parsedDate.done =>
    LET n == StatedNumbers(dateString)
    IN  IF RealDate(n[1], n[2], n[3])
        THEN /\ parsedDate.date # NullDate
             /\ DateToString(parsedDate.date, 330) = <<n[3], n[2], n[1], 0, 0, 330>>
        ELSE parsedDate.date = NullDate

\* the positions of a batch that carry the hash of position i
SameHashAs(batch, i) ==
  {j \in DOMAIN batch : batch[j].dataHash = batch[i].dataHash}

\* the fields insertRecords never touches after the insert
NonStatusFields ==
  {"id", "name", "age", "gender", "lastSeenDate", "lastKnownLocation", "description",
   "sourceState", "sourceURL", "geolocation", "dataHash", "createdAt"}

\* the positions of a batch that insertRecords counts as duplicates when it
\* starts from the collection coll
CountedDuplicates(batch, coll) ==
  {i \in DOMAIN batch :
     \/ findOne(coll, batch[i].dataHash) # {}
     \/ \E j \in SameHashAs(batch, i) : j < i}

\* C26: when insertRecords returns without a storage failure, every hash of
\* the batch is stored exactly once; for a hash the collection did not hold
\* before the call, the stored document has the non-status fields of the
\* first occurrence in the batch; every later occurrence was counted as a
\* duplicate and not inserted; and the stored status is the status of the
\* last occurrence.
C26_OneRecordPerBatchHash ==
  \A w \in Workers :
    (pc[w] = "return" /\ clean[w]) =>
      /\ \A i \in DOMAIN records[w] :
           LET batch  == records[w]
               occ    == SameHashAs(batch, i)
               first  == CHOOSE j \in occ : \A k \in occ : j <= k
               last   == CHOOSE j \in occ : \A k \in occ : j >= k
               stored == findOne(db, batch[i].dataHash)
           IN  /\ Cardinality(stored) = 1
               /\ \A d \in stored :
                    /\ d.status = batch[last].status
                    /\ findOne(callDb[w], batch[i].dataHash) = {} =>
                         /\ \A f \in NonStatusFields \ {"id", "createdAt"} :
                              d[f] = batch[first][f]
                         /\ "inserted" \in trail[w][first]
               /\ i # first =>
                    /\ "duplicate" \in trail[w][i]
                    /\ "inserted" \notin trail[w][i]
      /\ duplicates[w] = Cardinality(CountedDuplicates(records[w], callDb[w]))
      /\ inserted[w] = Len(records[w]) - duplicates[w]

\* C26 witness: a Delhi batch held the same name and date twice, from two
\* jurisdictions with two ages and two statuses, and insertRecords returned
\* without a failure.
C26_SameHashTwiceInBatch ==
  \E w \in Workers :
    /\ pc[w] = "return" /\ clean[w]
    /\ Len(records[w]) = 2
    /\ records[w][1].dataHash = records[w][2].dataHash
    /\ records[w][1].sourceState # records[w][2].sourceState
    /\ records[w][1].age # records[w][2].age
    /\ records[w][1].status # records[w][2].status
    /\ callDb[w] = {}

\* C27: in every reachable state there is one generateDataHash (one process
\* environment to run it in) under which every stored record's dataHash
\* equals generateDataHash of that record's own stored name, lastSeenDate
\* and sourceURL.
C27_HashOfStoredFields ==
  \E zone \in TimeZones :
    \A d \in db : d.dataHash = generateDataHash(d, zone)

\* the gender text a Maharashtra or Karnataka row states, in lower case
StatedGender(row) == toLowerCase(normalizeText(Cell(row, 3)))

\* C28: the Maharashtra and Karnataka extractors give gender female to a row
\* whose gender text contains "female", male to a row whose text contains
\* "male" but not "female", and other to any other row.
C28_GenderAsStated ==
  \A w \in Workers :
    (pc[w] # "off" /\ Sources[src[w]] \in {"Maharashtra", "Karnataka"}) =>
      \A r \in DOMAIN page[w] :
        \A rec \in RecordsOfRow(w, r) :
          rec.gender =
            IF includes(StatedGender(page[w][r]), <<"f", "e", "m", "a", "l", "e">>)
            THEN GenderFemale
            ELSE IF includes(StatedGender(page[w][r]), <<"m", "a", "l", "e">>)
            THEN GenderMale
            ELSE GenderOther

\* C29: a statistics request made while the collection is empty is answered
\* with status 500 and a body with success = false, never with a success
\* envelope of zero totals.
C29_EmptyCorpusStatisticsFails ==
  [][(Answered("statistics") /\ db = {}) =>
       /\ reply'.status = 500
       /\ reply'.body.success = FALSE]_vars

\* C30: whenever the worker process has ended, normally or through
\* process.exit, main() has called worker.shutdown() before.
C30_ShutdownBeforeProcessEnds ==
  main.at \in {"exited", "returned"} => main.shutdown

====
